---- MODULE Spec2Model ----
(***************************************************************************)
(* A state-machine model of the scene extensions OccupancyGrids and        *)
(* PoseArrays: one renderable per topic, created lazily by the first       *)
(* message, updated in place by later messages and by settings actions,    *)
(* and disposed by its owner; and of BinaryMessageWriter and the image     *)
(* panel ImageView, which share no state with them.                        *)
(*                                                                         *)
(* Object identity: every graphics object (texture, axis, arrow, line      *)
(* strip) carries an id.  A constructor takes the smallest id that no      *)
(* field of the renderable still references, so two objects that are       *)
(* referenced at the same time never share an id, and an id is reused only *)
(* after every reference to its former owner is gone.  Ids are scoped to   *)
(* the renderable of one topic.                                            *)
(***************************************************************************)
EXTENDS Integers, Sequences, FiniteSets, TLC

VARIABLES
    config,           \* renderer.config.topics: topic -> partial settings
    gridRenderables,  \* OccupancyGrids.renderables: topic -> renderable
    poseRenderables,  \* PoseArrays.renderables: topic -> renderable
    errors,           \* renderer.settings.errors: topic -> errorId -> message
    last,             \* the handler call that produced the current state
    bridge,           \* BinaryMessageWriter: the native bridge, its heap and its writers
    panel             \* ImageView: the image panel as of its last render

vars == <<config, gridRenderables, poseRenderables, errors, last, bridge, panel>>

\* a BinaryMessageWriter after construction: no bridge instance, no definition registry, no
\* call of initialize waiting for the module factory
NoBridge ==
    [ instance |-> FALSE, registry |-> FALSE, definitions |-> {}, pending |-> 0,
      writers |-> {}, heap |-> {}, returned |-> [op |-> "new"] ]

\* an image panel that is not mounted
NoPanel == [mounted |-> FALSE]

(***************************************************************************)
(* Bounds of the model.                                                    *)
(***************************************************************************)
MaxWidth == 2
MaxHeight == 2
MaxPoses == 3
ScenarioPoses == 5
MaxCostmapWidth == 4
MaxCostmapHeight == 2

(***************************************************************************)
(* Maps (JavaScript Map / plain objects) as functions with a finite domain *)
(***************************************************************************)
EmptyMap == <<>>

\* a registry replaced by one that holds only the new entry
MapSetAlone(f, k, v) == [x \in {k} |-> v]

MapSet(f, k, v) == [x \in (DOMAIN f) \cup {k} |-> IF x = k THEN v ELSE f[x]]

\* { ...a, ...b } with the fields of a winning
SpreadFirstWins(a, b) == [x \in (DOMAIN a) \cup (DOMAIN b) |-> IF x \in DOMAIN a THEN a[x] ELSE b[x]]

\* { ...a, ...b }: the fields of b win
Spread(a, b) == [x \in (DOMAIN a) \cup (DOMAIN b) |-> IF x \in DOMAIN b THEN b[x] ELSE a[x]]

Min(a, b) == IF a < b THEN a ELSE b

\* message.field ?? default
Field(message, field, default) ==
    IF field \in DOMAIN message THEN message[field] ELSE default

\* normalizeHeader(undefined)
NoHeader == [stamp |-> [sec |-> 0, nsec |-> 0], frame_id |-> ""]

\* the smallest id >= 1 that is not in the set used
FreshId(used) == CHOOSE i \in 1..(Cardinality(used) + 1) :
                    /\ i \notin used
                    /\ \A j \in 1..(i - 1) : j \in used

(***************************************************************************)
(* Topics                                                                  *)
(***************************************************************************)
GridTopics == {"/map"}
PoseTopics == {"/poses"}
PaletteTopics == {"/traffic_map", "/one_way_map", "/costmap", "/map"}
AllTopics ==
    GridTopics \cup PoseTopics \cup PaletteTopics
        \cup {"/path", "/mir_path", "/poses_in_frame"}

\* this.renderables.get(topic) is an entry
HasRenderable(renderables, topic) == topic \in DOMAIN renderables

\* the identity of the entry a handler constructs for a topic: entries are named by their
\* topic and an id, and a new one takes the smallest id no entry registered for the topic has
NewEntryId(renderables, topic) ==
    FreshId(IF topic \in DOMAIN renderables THEN {renderables[topic].id} ELSE {})

(***************************************************************************)
(* Time, frames, poses                                                     *)
(***************************************************************************)
NanoPerSec == 1000000000

\* toNanoSec that drops the nanoseconds
toNanoSecWholeSeconds(t) == t.sec * NanoPerSec

toNanoSec(t) == t.sec * NanoPerSec + t.nsec

\* Renderer.normalizeFrameId on the frame ids used here: a leading slash is dropped
normalizeFrameId(frameId) ==
    CASE frameId = "/odom" -> "odom"
      [] frameId = "/map" -> "map"
      [] OTHER -> frameId

Vec3(x, y, z) == [x |-> x, y |-> y, z |-> z]
Quat(x, y, z, w) == [x |-> x, y |-> y, z |-> z, w |-> w]
MkPose(p, q) == [position |-> p, orientation |-> q]
makePose == MkPose(Vec3(0, 0, 0), Quat(0, 0, 0, 1))

(***************************************************************************)
(* Bytes                                                                   *)
(***************************************************************************)
\* Int8 value -> unsigned byte (x & 0xFF, new Uint8Array(int8array))
ToUint8(x) == x % 256

\* number -> Int8 element (assignment into an Int8Array)
ToInt8(x) == LET u == x % 256 IN IF u >= 128 THEN u - 256 ELSE u

RECURSIVE BitAnd(_, _)
BitAnd(a, b) ==
    IF a = 0 \/ b = 0 THEN 0
    ELSE 2 * BitAnd(a \div 2, b \div 2) + (IF a % 2 = 1 /\ b % 2 = 1 THEN 1 ELSE 0)

RECURSIVE BitOr(_, _)
BitOr(a, b) ==
    IF a = 0 THEN b
    ELSE IF b = 0 THEN a
    ELSE 2 * BitOr(a \div 2, b \div 2) + (IF a % 2 = 1 \/ b % 2 = 1 THEN 1 ELSE 0)

(***************************************************************************)
(* OccupancyGrids: constants                                               *)
(***************************************************************************)
INVALID_OCCUPANCY_GRID == "INVALID_OCCUPANCY_GRID"

GRID_DEFAULT_SETTINGS == [visible |-> FALSE, frameLocked |-> FALSE]

png_signature == <<-119, 80, 78, 71>>

(***************************************************************************)
(* The PNG codec (png-ts) on the payloads used here.  An image is the      *)
(* signature, one byte holding the pixel count, and the pixel bytes;       *)
(* anything else that starts with the signature does not decode.           *)
(***************************************************************************)
PngDecodable(bytes) ==
    /\ Len(bytes) >= 5
    /\ bytes[5] = Len(bytes) - 5

\* PNG.load(data).decodePixels(): the pixel bytes, unsigned
PngDecodePixels(bytes) == SubSeq(bytes, 6, Len(bytes))

(***************************************************************************)
(* OccupancyGrids: pure functions                                          *)
(***************************************************************************)
normalizeOccupancyGrid(message) ==
    LET hasInfo == "info" \in DOMAIN message
        info == IF hasInfo THEN message.info ELSE EmptyMap
    IN  [ header |-> IF "header" \in DOMAIN message
                        THEN message.header
                        ELSE [stamp |-> [sec |-> 0, nsec |-> 0], frame_id |-> ""],
          info |-> [ resolution |-> IF "resolution" \in DOMAIN info THEN info.resolution ELSE 0,
                     width |-> IF "width" \in DOMAIN info THEN info.width ELSE 0,
                     height |-> IF "height" \in DOMAIN info THEN info.height ELSE 0,
                     origin |-> IF "origin" \in DOMAIN info THEN info.origin ELSE makePose ],
          data |-> IF "data" \in DOMAIN message THEN message.data ELSE <<>> ]

\* createTexture with one byte per cell instead of four
createTextureOneChannel(id, occupancyGrid) ==
    LET width == occupancyGrid.info.width
        height == occupancyGrid.info.height
        size == width * height
    IN  [ id |-> id,
          width |-> width,
          height |-> height,
          data |-> [i \in 1..size |-> 0],
          needsUpdate |-> FALSE ]

\* createTexture with a buffer filled with opaque black
createTextureOpaque(id, occupancyGrid) ==
    LET width == occupancyGrid.info.width
        height == occupancyGrid.info.height
        size == width * height
    IN  [ id |-> id,
          width |-> width,
          height |-> height,
          data |-> [i \in 1..(size * 4) |-> IF i % 4 = 0 THEN 255 ELSE 0],
          needsUpdate |-> FALSE ]

\* createTexture: a zero-filled RGBA buffer of 4 * width * height bytes; id names the new object
createTexture(id, occupancyGrid) ==
    LET width == occupancyGrid.info.width
        height == occupancyGrid.info.height
        size == width * height
    IN  [ id |-> id,
          width |-> width,
          height |-> height,
          data |-> [i \in 1..(size * 4) |-> 0],
          needsUpdate |-> FALSE ]

\* the traffic palette with an opaque default case
TrafficTexelOpaqueDefault(value) ==
    CASE value = 0 -> <<0, 255, 0, 128>>
      [] value = 100 -> <<0, 0, 255, 128>>
      [] OTHER -> <<0, 0, 0, 128>>

TrafficTexel(value) ==
    CASE value = 0 -> <<0, 255, 0, 128>>
      [] value = 100 -> <<0, 0, 255, 128>>
      [] OTHER -> <<0, 0, 0, 0>>

\* the one-way palette with masks that match on any common bit
OneWayTexelAnyBit(value) ==
    LET Has(mask) == BitAnd(value, mask) # 0
        red == BitOr(BitOr(IF Has(199) THEN 128 ELSE 0, IF Has(31) THEN 32 ELSE 0),
                     IF Has(241) THEN 64 ELSE 0)
        green == BitOr(BitOr(IF Has(143) THEN 64 ELSE 0, IF Has(124) THEN 32 ELSE 0),
                       IF Has(248) THEN 128 ELSE 0)
        blue == BitOr(IF Has(62) THEN 128 ELSE 0, IF Has(227) THEN 64 ELSE 0)
        alpha == IF value = 255 THEN 0 ELSE 128
    IN  <<red, green, blue, alpha>>

OneWayTexel(value) ==
    LET Has(mask) == BitAnd(value, mask) = mask
        red == BitOr(BitOr(IF Has(199) THEN 128 ELSE 0,      \* 0b11000111: 0 degrees
                           IF Has(31) THEN 32 ELSE 0),       \* 0b00011111: +90 degrees
                     IF Has(241) THEN 64 ELSE 0)             \* 0b11110001: -90 degrees
        green == BitOr(BitOr(IF Has(143) THEN 64 ELSE 0,     \* 0b10001111: +45 degrees
                             IF Has(124) THEN 32 ELSE 0),    \* 0b01111100: +/-180 degrees
                       IF Has(248) THEN 128 ELSE 0)          \* 0b11111000: -135 degrees
        blue == BitOr(IF Has(62) THEN 128 ELSE 0,            \* 0b00111110: +135 degrees
                      IF Has(227) THEN 64 ELSE 0)            \* 0b11100011: -45 degrees
        alpha == IF value = 255 THEN 0 ELSE 128
    IN  <<red, green, blue, alpha>>

\* the default palette keyed on the signed cell value
DefaultTexelSigned(value) ==
    LET signed == ToInt8(value)
    IN  CASE signed = 0 -> <<255, 255, 255, 128>>
          [] signed = 224 -> <<0, 0, 0, 128>>
          [] signed = 192 -> <<255, 168, 168, 128>>
          [] signed = 96 -> <<128, 128, 128, 128>>
          [] signed = 95 -> <<255, 165, 0, 128>>
          [] OTHER -> <<0, 0, 0, 0>>

DefaultTexel(value) ==
    CASE value = 0 -> <<255, 255, 255, 128>>
      [] value = 224 -> <<0, 0, 0, 128>>
      [] value = 192 -> <<255, 168, 168, 128>>
      [] value = 96 -> <<128, 128, 128, 128>>
      [] value = 95 -> <<255, 165, 0, 128>>
      [] OTHER -> <<0, 0, 0, 0>>

Texel(topic, value) ==
    CASE topic = "/traffic_map" -> TrafficTexel(value)
      [] topic = "/one_way_map" -> OneWayTexel(value)
      [] OTHER -> DefaultTexel(value)

\* updateTexture: the first size texels are overwritten in place, the texture is marked dirty
updateTexture(topic, texture, occupancyGrid) ==
    LET size == occupancyGrid.info.width * occupancyGrid.info.height
        data == occupancyGrid.data
        rgba == texture.data
    IN  [texture EXCEPT
            !.data = [j \in 1..Len(rgba) |->
                        IF (j - 1) \div 4 < size
                        THEN Texel(topic, ToUint8(data[((j - 1) \div 4) + 1]))[((j - 1) % 4) + 1]
                        ELSE rgba[j]],
            !.needsUpdate = TRUE]

\* the message with the width interpolated twice
invalidOccupancyGridMessageWidthTwice(occupancyGrid) ==
    [ text |-> "OccupancyGrid data length (${0}) is not equal to width ${1} * height ${2}",
      args |-> <<Len(occupancyGrid.data), occupancyGrid.info.width, occupancyGrid.info.width>> ]

invalidOccupancyGridMessage(occupancyGrid) ==
    [ text |-> "OccupancyGrid data length (${0}) is not equal to width ${1} * height ${2}",
      args |-> <<Len(occupancyGrid.data), occupancyGrid.info.width, occupancyGrid.info.height>> ]

\* the signature test on the first byte only
HasPngSignatureFirstByte(data) ==
    /\ Len(data) >= 1
    /\ data[1] = png_signature[1]

\* the first four bytes are the PNG signature (a missing element is undefined and matches nothing)
HasPngSignature(data) ==
    /\ Len(data) >= 4
    /\ \A i \in 1..4 : data[i] = png_signature[i]

\* lines 219-228: the data buffer replaced by the decoded pixels as signed bytes
decodePng(occupancyGrid) ==
    LET data == [i \in 1..Len(occupancyGrid.data) |-> ToUint8(occupancyGrid.data[i])]
        imgData == PngDecodePixels(data)
    IN  [occupancyGrid EXCEPT !.data = [i \in 1..Len(imgData) |-> ToInt8(imgData[i])]]

\* the dimension check written as "long enough"
dataLengthAtLeast(occupancyGrid) ==
    Len(occupancyGrid.data) >= occupancyGrid.info.width * occupancyGrid.info.height

\* line 233: the dimension check
dataLengthMatches(occupancyGrid) ==
    Len(occupancyGrid.data) = occupancyGrid.info.width * occupancyGrid.info.height

\* line 244 with only the width compared
dimensionsChangedWidthOnly(texture, occupancyGrid) ==
    occupancyGrid.info.width # texture.width

\* line 244: the image dimensions changed
dimensionsChanged(texture, occupancyGrid) ==
    \/ occupancyGrid.info.width # texture.width
    \/ occupancyGrid.info.height # texture.height

\* the scale with the width used for both axes
gridScaleSquare(occupancyGrid) ==
    <<occupancyGrid.info.resolution * occupancyGrid.info.width,
      occupancyGrid.info.resolution * occupancyGrid.info.width, 1>>

\* line 253: renderable.scale.set(resolution * width, resolution * height, 1)
gridScale(occupancyGrid) ==
    <<occupancyGrid.info.resolution * occupancyGrid.info.width,
      occupancyGrid.info.resolution * occupancyGrid.info.height, 1>>

\* ids of the textures some field of the renderable references
TextureRefs(r) == {r.texture.id, r.materialMap, r.pickingMap}

(***************************************************************************)
(* _updateOccupancyGridRenderable.  The result is the renderable after the *)
(* call, the diagnostic it attached (or none) and whether it threw.        *)
(* userData.texture is held with its pixel buffer; material.map and the    *)
(* picking material's map uniform hold the id of the texture they point    *)
(* to.  disposedByUpdate is the set of the textures on which this call     *)
(* called dispose() (line 246), and disposedTextures is the set of the     *)
(* textures on which dispose() was ever called; the id of a disposed       *)
(* texture that no field references any more can be taken by a new         *)
(* texture, and then names the new one.                                    *)
(***************************************************************************)
updateOccupancyGridRenderable(topic, renderable, occupancyGrid0, receiveTime) ==
    LET r1 == [renderable EXCEPT
                  !.occupancyGrid = occupancyGrid0,
                  !.pose = occupancyGrid0.info.origin,
                  !.receiveTime = receiveTime,
                  !.messageTime = toNanoSec(occupancyGrid0.header.stamp),
                  !.frameId = normalizeFrameId(occupancyGrid0.header.frame_id),
                  !.disposedByUpdate = {}]
        isPng == HasPngSignature(occupancyGrid0.data)
        throws == isPng /\ ~PngDecodable([i \in 1..Len(occupancyGrid0.data) |->
                                             ToUint8(occupancyGrid0.data[i])])
        occupancyGrid == IF isPng /\ ~throws THEN decodePng(occupancyGrid0) ELSE occupancyGrid0
        \* the stored message is the same object, so it sees the replaced data buffer
        r2 == [r1 EXCEPT !.occupancyGrid = occupancyGrid]
        width == occupancyGrid.info.width
        height == occupancyGrid.info.height
        resolution == occupancyGrid.info.resolution
        regenerate == dimensionsChanged(r2.texture, occupancyGrid)
        newId == FreshId(TextureRefs(r2))
        r3 == IF regenerate
              THEN [r2 EXCEPT
                      !.disposedByUpdate = {r2.texture.id},
                      !.disposedTextures = (@ \cup {r2.texture.id}) \ {newId},
                      !.texture = createTexture(newId, occupancyGrid),
                      !.materialMap = newId]
              ELSE r2
        r4 == [r3 EXCEPT
                  !.texture = updateTexture(topic, r3.texture, occupancyGrid),
                  !.scale = gridScale(occupancyGrid)]
    IN  IF throws
        THEN [renderable |-> r1, error |-> <<>>, thrown |-> TRUE]
        ELSE IF ~dataLengthMatches(occupancyGrid)
        THEN [renderable |-> r2,
              error |-> <<invalidOccupancyGridMessage(occupancyGrid)>>,
              thrown |-> FALSE]
        ELSE [renderable |-> r4, error |-> <<>>, thrown |-> FALSE]

\* lines 172-197: the renderable the first message of a topic creates
newOccupancyGridRenderable(topic, occupancyGrid, receiveTime) ==
    [ id |-> NewEntryId(gridRenderables, topic),
      receiveTime |-> receiveTime,
      messageTime |-> toNanoSec(occupancyGrid.header.stamp),
      frameId |-> normalizeFrameId(occupancyGrid.header.frame_id),
      pose |-> occupancyGrid.info.origin,
      settings |-> Spread(GRID_DEFAULT_SETTINGS, config[topic]),
      occupancyGrid |-> occupancyGrid,
      texture |-> createTexture(1, occupancyGrid),
      materialMap |-> 1,
      pickingMap |-> 1,
      disposedByUpdate |-> {},
      disposedTextures |-> {},
      materialDisposed |-> FALSE,
      pickingMaterialDisposed |-> FALSE,
      scale |-> <<1, 1, 1>> ]

\* addToTopic that attaches the diagnostic to every topic
addToTopicEverywhere(topic, errorId, produced) ==
    IF produced = <<>> THEN errors
    ELSE [t \in DOMAIN errors |-> MapSet(errors[t], errorId, produced[1])]

\* renderer.settings.errors.addToTopic for the diagnostics a call produced
addToTopic(topic, errorId, produced) ==
    IF produced = <<>> THEN errors
    ELSE [errors EXCEPT ![topic] = MapSet(@, errorId, produced[1])]

\* what a call leaves in the variable last: the handler, its topic, whether it threw, the
\* renderables it disposed, and the child objects it dropped from the pools
Called(op, topic, thrown, disposed, released) ==
    [op |-> op, topic |-> topic, thrown |-> thrown, disposed |-> disposed,
     released |-> released]

handleOccupancyGrid(op, topic, messageEvent) ==
    LET occupancyGrid == normalizeOccupancyGrid(messageEvent.message)
        receiveTime == toNanoSec(messageEvent.receiveTime)
        renderable == IF HasRenderable(gridRenderables, topic)
                      THEN gridRenderables[topic]
                      ELSE newOccupancyGridRenderable(topic, occupancyGrid, receiveTime)
        res == updateOccupancyGridRenderable(topic, renderable, occupancyGrid, receiveTime)
    IN  /\ gridRenderables' = MapSet(gridRenderables, topic, res.renderable)
        /\ errors' = addToTopic(topic, INVALID_OCCUPANCY_GRID, res.error)
        /\ UNCHANGED <<bridge, panel>>
        /\ last' = Called(op, topic, res.thrown, EmptyMap, {})
        /\ UNCHANGED <<config, poseRenderables>>

\* (value >> offset) & 3 on a byte; an undefined value gives 0
ShiftAndMask(value, offset) ==
    IF value.defined THEN (ToUint8(value.value) \div (2 ^ offset)) % 4 ELSE 0

\* data[index] of line 537 for index = k / 4: undefined unless k / 4 is a whole number
\* inside the array
PackedByteAt(data, k) ==
    IF k % 4 = 0 /\ (k \div 4) + 1 \in DOMAIN data
    THEN [defined |-> TRUE, value |-> data[(k \div 4) + 1]]
    ELSE [defined |-> FALSE]

\* MirToRos reads an element of a data field that is missing: a TypeError, if the loops run
MirToRosThrows(message) ==
    "data" \notin DOMAIN message /\ message.width > 0 /\ message.height > 0

\* MirToRos: the output buffer has the length of the packed data; cell k is written, if
\* k = width * y + x for some y < width and x < height, and a write past the end is dropped
MirToRos(messageEvent) ==
    LET message == messageEvent.message
        data == Field(message, "data", <<>>)
        width == message.width
        height == message.height
        written == {width * y + x : y \in 0..(width - 1), x \in 0..(height - 1)}
        occupancy_grid_data ==
            [i \in 1..Len(data) |->
                IF (i - 1) \in written
                THEN ToInt8(ShiftAndMask(PackedByteAt(data, i - 1), 6 - (((i - 1) % 4) * 2)))
                ELSE 0]
    IN  [ receiveTime |-> messageEvent.receiveTime,
          message |->
            [ header |-> message.header,
              info |-> [ resolution |-> message.resolution,
                         width |-> width,
                         height |-> height,
                         origin |-> MkPose(Vec3(message.offset_x, message.offset_y, 0),
                                           Quat(0, 0, 0, 1)) ],
              data |-> occupancy_grid_data ] ]

\* handleCostmapData that passes the grid it converted through the adapter once more
handleCostmapDataTwice(topic, messageEvent) ==
    IF MirToRosThrows(messageEvent.message)
    THEN /\ UNCHANGED <<bridge, panel>>
         /\ last' = Called("costmap", topic, TRUE, EmptyMap, {})
         /\ UNCHANGED <<config, gridRenderables, poseRenderables, errors>>
    ELSE LET once == MirToRos(messageEvent)
             again == [once EXCEPT !.message =
                          [ header |-> once.message.header,
                            resolution |-> once.message.info.resolution,
                            width |-> once.message.info.width,
                            height |-> once.message.info.height,
                            offset_x |-> once.message.info.origin.position.x,
                            offset_y |-> once.message.info.origin.position.y,
                            data |-> once.message.data ]]
         IN  handleOccupancyGrid("costmap", topic, MirToRos(again))

\* OccupancyGrids.handleCostmapData
handleCostmapData(topic, messageEvent) ==
    IF MirToRosThrows(messageEvent.message)
    THEN /\ UNCHANGED <<bridge, panel>>
         /\ last' = Called("costmap", topic, TRUE, EmptyMap, {})
         /\ UNCHANGED <<config, gridRenderables, poseRenderables, errors>>
    ELSE handleOccupancyGrid("costmap", topic, MirToRos(messageEvent))

\* SceneExtension.saveSetting(path, value) for a path ["topics", topic, field]
saveSetting(topic, field, value) ==
    [config EXCEPT ![topic] = MapSet(@, field, value)]

\* OccupancyGrids.handleSettingsAction
gridHandleSettingsAction(action, topic, field, value) ==
    IF action # "update"
    THEN /\ UNCHANGED <<bridge, panel>>
         /\ last' = Called("gridSettingsIgnored", topic, FALSE, EmptyMap, {})
         /\ UNCHANGED <<config, gridRenderables, poseRenderables, errors>>
    ELSE LET newConfig == saveSetting(topic, field, value)
         IN  /\ config' = newConfig
             /\ UNCHANGED poseRenderables
             /\ IF topic \in DOMAIN gridRenderables
                THEN LET renderable == gridRenderables[topic]
                         r1 == [renderable EXCEPT
                                  !.settings = Spread(GRID_DEFAULT_SETTINGS, newConfig[topic])]
                         res == updateOccupancyGridRenderable(topic, r1, r1.occupancyGrid,
                                                              r1.receiveTime)
                     IN  /\ gridRenderables' = MapSet(gridRenderables, topic, res.renderable)
                         /\ errors' = addToTopic(topic, INVALID_OCCUPANCY_GRID, res.error)
                         /\ UNCHANGED <<bridge, panel>>
                         /\ last' = Called("gridSettings", topic, res.thrown, EmptyMap, {})
                ELSE /\ UNCHANGED <<gridRenderables, errors>>
                     /\ UNCHANGED <<bridge, panel>>
                     /\ last' = Called("gridSettings", topic, FALSE, EmptyMap, {})

\* OccupancyGridRenderable.dispose
disposeOccupancyGridRenderable(r) ==
    [r EXCEPT
        !.disposedTextures = @ \cup {r.texture.id},
        !.materialDisposed = TRUE,
        !.pickingMaterialDisposed = TRUE]

(***************************************************************************)
(* Inputs of the grid handlers                                             *)
(***************************************************************************)
Variants == {1, 2}

FrameOf(v) == IF v = 1 THEN "map" ELSE "/odom"

CellAt(v, i) == IF v = 1 THEN (IF i % 2 = 1 THEN 0 ELSE 100)
                         ELSE (IF i % 2 = 1 THEN -32 ELSE 0)

RawData(n, v) == [i \in 1..n |-> CellAt(v, i)]

PngData(n, v) == png_signature \o <<n>> \o RawData(n, v)

GridMessage(width, height, data, v) ==
    [ header |-> [stamp |-> [sec |-> v, nsec |-> 5], frame_id |-> FrameOf(v)],
      info |-> [ resolution |-> v, width |-> width, height |-> height,
                 origin |-> MkPose(Vec3(v, 0, 0), Quat(0, 0, 0, 1)) ],
      data |-> data ]

\* data lengths tried against a grid of size cells: one short, exact, one long
Lengths(size) == {size - 1, size, size + 1}

\* every width up to MaxWidth, with the heights 1 and MaxHeight
Dims == (1..MaxWidth) \X {1, MaxHeight}

\* Variant 1 comes with every data length, raw, and one byte short as an image; variant 2 is
\* well-formed, raw and as an image.  Then an image cut off after its signature, and a
\* message that carries a header only.
GridMessages ==
    UNION { { GridMessage(d[1], d[2], RawData(n, 1), 1) : n \in Lengths(d[1] * d[2]) }
            \cup { GridMessage(d[1], d[2], PngData(d[1] * d[2] - 1, 1), 1),
                   GridMessage(d[1], d[2], RawData(d[1] * d[2], 2), 2),
                   GridMessage(d[1], d[2], PngData(d[1] * d[2], 2), 2) } : d \in Dims }
    \cup { GridMessage(1, 1, png_signature, 1) }
    \cup { [header |-> [stamp |-> [sec |-> 1, nsec |-> 5], frame_id |-> "map"]] }

GridEvents == { [receiveTime |-> [sec |-> m.header.stamp.sec, nsec |-> 7], message |-> m] :
                    m \in GridMessages }

(***************************************************************************)
(* Initial state and the actions of the grid extension                     *)
(***************************************************************************)
Init ==
    /\ config = [t \in AllTopics |-> EmptyMap]
    /\ gridRenderables = EmptyMap
    /\ poseRenderables = EmptyMap
    /\ errors = [t \in AllTopics |-> EmptyMap]
    /\ last = Called("init", "", FALSE, EmptyMap, {})
    /\ bridge = NoBridge
    /\ panel = NoPanel

GridMessage_ ==
    \E topic \in GridTopics, ev \in GridEvents :
        handleOccupancyGrid("grid", topic, ev)

GridSettings ==
    \E topic \in GridTopics, action \in {"update", "perform-node-action"}, value \in BOOLEAN :
        gridHandleSettingsAction(action, topic, "frameLocked", value)

\* SceneExtension.removeAllRenderables: every renderable is disposed and the registry cleared.
\* The disposed renderables stay in last.disposed, where their owner can still reach them.
GridRemoveAll ==
    /\ gridRenderables # EmptyMap
    /\ gridRenderables' = EmptyMap
    /\ UNCHANGED <<bridge, panel>>
    /\ last' = Called("gridRemoveAll", "", FALSE,
                      [t \in DOMAIN gridRenderables |->
                          disposeOccupancyGridRenderable(gridRenderables[t])], {})
    /\ UNCHANGED <<config, poseRenderables, errors>>

NextGrid == GridMessage_ \/ GridSettings \/ GridRemoveAll

SpecGrid == Init /\ [][NextGrid]_vars

(***************************************************************************)
(* Properties of the grid extension                                        *)
(***************************************************************************)
Range(f) == {f[x] : x \in DOMAIN f}

\* the step is a grid message on topic t whose processing reached the dimension check
GridMessageChecked(t) ==
    /\ last'.op = "grid"
    /\ last'.topic = t
    /\ ~last'.thrown

\* ... and the message failed the check (the stored message holds the data after any PNG decode)
GridMessageRejected(t) ==
    /\ GridMessageChecked(t)
    /\ LET g == gridRenderables'[t].occupancyGrid
       IN  Len(g.data) # g.info.width * g.info.height

\* ... or passed it
GridMessageAccepted(t) ==
    /\ GridMessageChecked(t)
    /\ LET g == gridRenderables'[t].occupancyGrid
       IN  Len(g.data) = g.info.width * g.info.height

\* C1: a grid message whose data length (after any PNG decode) differs from width*height is
\* rejected: an INVALID_OCCUPANCY_GRID diagnostic is attached to its topic, and the texture
\* (object, dimensions, texels, disposal) and the scale of the renderable are what they were
\* before the message; a renderable the message itself created has a fresh all-zero texture
\* and the initial scale.
C1_RejectedGridKeepsTexture ==
    [][ \A t \in GridTopics :
          GridMessageRejected(t) =>
            /\ INVALID_OCCUPANCY_GRID \in DOMAIN errors'[t]
            /\ IF t \in DOMAIN gridRenderables
               THEN /\ gridRenderables'[t].texture = gridRenderables[t].texture
                    /\ gridRenderables'[t].scale = gridRenderables[t].scale
                    /\ gridRenderables'[t].disposedTextures = gridRenderables[t].disposedTextures
                    /\ gridRenderables'[t].materialMap = gridRenderables[t].materialMap
               ELSE /\ \A j \in DOMAIN gridRenderables'[t].texture.data :
                          gridRenderables'[t].texture.data[j] = 0
                    /\ gridRenderables'[t].scale = <<1, 1, 1>> ]_vars

\* C1 witness: a message was just rejected on a topic whose texture shows an earlier grid of
\* other dimensions
C1_Witness ==
    \E t \in DOMAIN gridRenderables :
        LET r == gridRenderables[t] IN
        /\ last.op = "grid" /\ last.topic = t /\ ~last.thrown
        /\ Len(r.occupancyGrid.data) # r.occupancyGrid.info.width * r.occupancyGrid.info.height
        /\ INVALID_OCCUPANCY_GRID \in DOMAIN errors[t]
        /\ \E j \in DOMAIN r.texture.data : r.texture.data[j] # 0
        /\ r.texture.width # r.occupancyGrid.info.width

\* C2 (as claimed): a rejected grid message leaves the stored grid, the origin pose and the
\* frame id of an existing renderable as they were
C2_RejectedGridKeepsEntryState ==
    [][ \A t \in GridTopics :
          (GridMessageRejected(t) /\ t \in DOMAIN gridRenderables) =>
            /\ gridRenderables'[t].occupancyGrid = gridRenderables[t].occupancyGrid
            /\ gridRenderables'[t].pose = gridRenderables[t].pose
            /\ gridRenderables'[t].frameId = gridRenderables[t].frameId ]_vars

\* C3 (as claimed): the diagnostic of a rejected grid names the expected length width*height
\* and the actual data length
C3_DiagnosticNamesProduct ==
    [][ \A t \in GridTopics :
          GridMessageRejected(t) =>
            LET g == gridRenderables'[t].occupancyGrid
                args == errors'[t][INVALID_OCCUPANCY_GRID].args
            IN  /\ g.info.width * g.info.height \in Range(args)
                /\ Len(g.data) \in Range(args) ]_vars

\* C3 (amended): the diagnostic of a rejected grid names the actual data length, the width
\* and the height, in this order, and nothing else
C3_DiagnosticNamesLengthWidthHeight ==
    [][ \A t \in GridTopics :
          GridMessageRejected(t) =>
            LET g == gridRenderables'[t].occupancyGrid
            IN  errors'[t][INVALID_OCCUPANCY_GRID].args
                    = <<Len(g.data), g.info.width, g.info.height>> ]_vars

\* C3 witness: a diagnostic whose three numbers do not contain the product of the last two
C3_Witness ==
    \E t \in GridTopics :
        /\ last.op = "grid" /\ last.topic = t
        /\ INVALID_OCCUPANCY_GRID \in DOMAIN errors[t]
        /\ LET args == errors[t][INVALID_OCCUPANCY_GRID].args
           IN  /\ args[2] * args[3] \notin Range(args)
               /\ args[1] = args[2] * args[3] - 1

\* C4: in every state the RGBA buffer of a renderable's texture holds 4 * width * height
\* bytes, and right after an accepted update (a message or a settings action that passed the
\* dimension check) the texture has the width and height of the grid
C4_TextureSize ==
    \A t \in DOMAIN gridRenderables :
        LET r == gridRenderables[t]
            g == r.occupancyGrid
        IN  /\ Len(r.texture.data) = 4 * r.texture.width * r.texture.height
            /\ ( /\ last.op \in {"grid", "gridSettings"}
                 /\ last.topic = t
                 /\ ~last.thrown
                 /\ Len(g.data) = g.info.width * g.info.height )
               => (r.texture.width = g.info.width /\ r.texture.height = g.info.height)

\* C4 witness: an accepted grid has just replaced a texture of other dimensions
C4_Witness ==
    \E t \in DOMAIN gridRenderables :
        LET r == gridRenderables[t]
            g == r.occupancyGrid
        IN  /\ last.op = "grid" /\ last.topic = t /\ ~last.thrown
            /\ Len(g.data) = g.info.width * g.info.height
            /\ g.info.width * g.info.height = MaxWidth * MaxHeight
            /\ r.texture.id # 1
            /\ Len(r.texture.data) = 4 * MaxWidth * MaxHeight

(***************************************************************************)
(* PoseArrays: constants                                                   *)
(***************************************************************************)
\* lengths are in units of AXIS_LENGTH; the components of a marker scale (arrow scales, line
\* widths, the 1 of a line strip) are in thousandths: 0.15 is 150, 0.025 is 25, 1 is 1000
AXIS_LENGTH == 1

DEFAULT_TYPE == "axis"

\* a CSS color string "rgba(r, g, b, a)": r, g, b in 1/255, a in 1/100
Css(r, g, b, a) == [css |-> <<r, g, b, a>>]

DEFAULT_GRADIENT_STR == <<Css(124, 107, 255, 100), Css(124, 107, 255, 50)>>

POSE_DEFAULT_SETTINGS ==
    [ visible |-> FALSE,
      type |-> DEFAULT_TYPE,
      axisScale |-> AXIS_LENGTH,
      arrowScale |-> <<1000, 150, 150>>,
      lineWidth |-> 200,
      gradient |-> DEFAULT_GRADIENT_STR,
      trolley |-> FALSE ]

NAV_PATH_DATATYPES == {"nav_msgs/Path", "nav_msgs/msg/Path"}

\* renderer.topicsByName: the schema each topic is advertised with
SchemaOf(topic) ==
    CASE topic = "/path" -> "nav_msgs/Path"
      [] topic = "/mir_path" -> "mirMsgs/RobotStatePath"
      [] OTHER -> "geometry_msgs/PoseArray"

getDefaultType(topic) ==
    IF SchemaOf(topic) \in NAV_PATH_DATATYPES THEN "line" ELSE DEFAULT_TYPE

(***************************************************************************)
(* Colors and numbers                                                      *)
(***************************************************************************)
\* stringToRgba: the channels of a CSS color string
stringToRgba(str) == [r |-> str.css[1], g |-> str.css[2], b |-> str.css[3], a |-> str.css[4]]

\* i / (count - 1) as a fraction; 0 / 0 is NaN
Fraction(n, d) == [n |-> n, d |-> d]
IsNaN(q) == q.d = 0 /\ q.n = 0

\* rgbaGradient: a + (b - a) * t on every channel, as a fraction over the denominator of t
rgbaGradient(a, b, t) ==
    [ r |-> Fraction(a.r * t.d + (b.r - a.r) * t.n, t.d),
      g |-> Fraction(a.g * t.d + (b.g - a.g) * t.n, t.d),
      b |-> Fraction(a.b * t.d + (b.b - a.b) * t.n, t.d),
      a |-> Fraction(a.a * t.d + (b.a - a.a) * t.n, t.d) ]

\* createArrowMarker(scale, color)
createArrowMarker(scale, color) == [scale |-> scale, color |-> color]

\* array[i] of a JavaScript array: undefined past its end
ElementAt(array, i) ==
    IF i \in DOMAIN array THEN [defined |-> TRUE, value |-> array[i]] ELSE [defined |-> FALSE]

(***************************************************************************)
(* Child objects.  An object is named by its kind and an id; a constructor *)
(* takes the smallest id of its kind that the renderable does not          *)
(* reference (in a pool or among its scene-graph children).                *)
(***************************************************************************)
Ids(pool) == {pool[i].id : i \in DOMAIN pool}

UsedIds(r, kind) ==
    {c[2] : c \in {c \in r.children : c[1] = kind}}
    \cup (CASE kind = "axis" -> Ids(r.axes)
            [] kind = "arrow" -> Ids(r.arrows)
            [] kind = "trolley" -> Ids(r.trolley_arrows)
            [] OTHER -> Ids(r.lineStrip))

\* the k-th smallest id that is not in used
RECURSIVE NthFree(_, _)
NthFree(used, k) ==
    IF k = 1 THEN FreshId(used) ELSE NthFree(used \cup {FreshId(used)}, k - 1)

\* new THREE.Object3D(): visible, at the origin, not rotated, not scaled
NewObject(id) ==
    [ id |-> id, visible |-> TRUE, disposed |-> FALSE, scale |-> 1,
      position |-> Vec3(0, 0, 0), quaternion |-> Quat(0, 0, 0, 1) ]

\* pool.length = 0 after remove + dispose of every element: the objects leave the model, and
\* garbage keeps what became of each (was dispose() called, is it still a child)
Drop(r, kind, pool, disposedAll) ==
    [r EXCEPT
        !.garbage = @ \cup { [ kind |-> kind, id |-> pool[i].id,
                               disposed |-> (pool[i].disposed \/ disposedAll),
                               attached |-> (<<kind, pool[i].id>> \in r.children) ] :
                             i \in DOMAIN pool }]

removeArrows(r) ==
    LET r1 == [r EXCEPT !.children = @ \ {<<"arrow", id>> : id \in Ids(r.arrows)}]
    IN  [Drop(r1, "arrow", r.arrows, TRUE) EXCEPT !.arrows = <<>>]

removeAxes(r) ==
    LET r1 == [r EXCEPT !.children = @ \ {<<"axis", id>> : id \in Ids(r.axes)}]
    IN  [Drop(r1, "axis", r.axes, TRUE) EXCEPT !.axes = <<>>]

removeTrolley(r) ==
    LET r1 == [r EXCEPT !.children = @ \ {<<"trolley", id>> : id \in Ids(r.trolley_arrows)}]
    IN  [Drop(r1, "trolley", r.trolley_arrows, TRUE) EXCEPT !.trolley_arrows = <<>>]

\* removeLineStrip that disposes the line strip but keeps the reference to it
removeLineStripKeepsReference(r) ==
    IF r.lineStrip # <<>>
    THEN [r EXCEPT !.children = @ \ {<<"line", id>> : id \in Ids(r.lineStrip)},
                   !.lineStrip[1].disposed = TRUE]
    ELSE r

removeLineStrip(r) ==
    IF r.lineStrip # <<>>
    THEN LET r1 == [r EXCEPT !.children = @ \ {<<"line", id>> : id \in Ids(r.lineStrip)}]
         IN  [Drop(r1, "line", r.lineStrip, TRUE) EXCEPT !.lineStrip = <<>>]
    ELSE r

(***************************************************************************)
(* The pools                                                               *)
(***************************************************************************)
\* _createAxesToMatchPoses without the loop that shows the existing axes again
createAxesToMatchPosesNoReshow(r, poseArray) ==
    LET scale == r.settings.axisScale \div AXIS_LENGTH
        old == r.axes
        count == Len(poseArray.poses)
        used == UsedIds(r, "axis")
        axes == [i \in 1..(IF count > Len(old) THEN count ELSE Len(old)) |->
                    IF i > Len(old)
                        THEN [NewObject(NthFree(used, i - Len(old))) EXCEPT !.scale = scale]
                    ELSE IF i > count
                        THEN [old[i] EXCEPT !.visible = FALSE]
                    ELSE old[i]]
    IN  [r EXCEPT
            !.axes = axes,
            !.children = @ \cup {<<"axis", axes[i].id>> : i \in (Len(old) + 1)..count}]

\* _createAxesToMatchPoses that builds a new axis for every pose and hides the old ones
createAxesToMatchPosesRebuild(r, poseArray) ==
    LET scale == r.settings.axisScale \div AXIS_LENGTH
        old == r.axes
        count == Len(poseArray.poses)
        used == UsedIds(r, "axis")
        axes == [i \in 1..count |-> [NewObject(NthFree(used, i)) EXCEPT !.scale = scale]]
    IN  [r EXCEPT
            !.axes = axes \o [i \in DOMAIN old |-> [old[i] EXCEPT !.visible = FALSE]],
            !.children = @ \cup {<<"axis", axes[i].id>> : i \in 1..count}]

\* _createAxesToMatchPoses
createAxesToMatchPoses(r, poseArray) ==
    LET scale == r.settings.axisScale \div AXIS_LENGTH
        old == r.axes
        count == Len(poseArray.poses)
        existingUpdateCount == Min(Len(old), count)
        used == UsedIds(r, "axis")
        axes == [i \in 1..(IF count > Len(old) THEN count ELSE Len(old)) |->
                    IF i <= existingUpdateCount
                        THEN [old[i] EXCEPT !.visible = TRUE, !.scale = scale]
                    ELSE IF i > Len(old)
                        THEN [NewObject(NthFree(used, i - Len(old))) EXCEPT !.scale = scale]
                    ELSE [old[i] EXCEPT !.visible = FALSE]]
    IN  [r EXCEPT
            !.axes = axes,
            !.children = @ \cup {<<"axis", axes[i].id>> : i \in (Len(old) + 1)..count}]

\* _createArrowsToMatchPoses
createArrowsToMatchPoses(r, poseArray, colorStart, colorEnd) ==
    LET old == r.arrows
        count == Len(poseArray.poses)
        createArrowMarkerFromIndex(i) ==
            createArrowMarker(r.settings.arrowScale,
                              rgbaGradient(colorStart, colorEnd, Fraction(i, count - 1)))
        existingUpdateCount == Min(Len(old), count)
        used == UsedIds(r, "arrow")
        \* i is the 1-based position, i - 1 the index the code interpolates with
        arrows == [i \in 1..(IF count > Len(old) THEN count ELSE Len(old)) |->
                    IF i <= existingUpdateCount
                        THEN [old[i] EXCEPT !.visible = TRUE,
                                            !.marker = createArrowMarkerFromIndex(i - 1)]
                    ELSE IF i > Len(old)
                        THEN Spread(NewObject(NthFree(used, i - Len(old))),
                                    [marker |-> createArrowMarkerFromIndex(i - 1)])
                    ELSE [old[i] EXCEPT !.visible = FALSE]]
    IN  [r EXCEPT
            !.arrows = arrows,
            !.children = @ \cup {<<"arrow", arrows[i].id>> : i \in (Len(old) + 1)..count}]

\* _createTrolleyArrowsToMatchPoses: every arrow gets the marker scale
\* [trolley_length, 0.025, 0.025] (lines 679-682, 690-693)
createTrolleyArrowsToMatchPoses(r, poseArray) ==
    LET old == r.trolley_arrows
        count == Len(poseArray.poses)
        color == [r |-> 0, g |-> 0, b |-> 1, a |-> 1]
        arrowMarker == createArrowMarker(<<1000 * r.trolley_length, 25, 25>>, color)
        existingUpdateCount == Min(Len(old), count)
        used == UsedIds(r, "trolley")
        arrows == [i \in 1..(IF count > Len(old) THEN count ELSE Len(old)) |->
                    IF i <= existingUpdateCount
                        THEN [old[i] EXCEPT !.visible = TRUE, !.marker = arrowMarker]
                    ELSE IF i > Len(old)
                        THEN Spread(NewObject(NthFree(used, i - Len(old))),
                                    [marker |-> arrowMarker])
                    ELSE [old[i] EXCEPT !.visible = FALSE]]
    IN  [r EXCEPT
            !.trolley_arrows = arrows,
            !.children = @ \cup {<<"trolley", arrows[i].id>> : i \in (Len(old) + 1)..count}]

setObjectPose(object, pose) ==
    [object EXCEPT
        !.position = pose.position,
        !.quaternion = Quat(pose.orientation.x, pose.orientation.y,
                            pose.orientation.z, pose.orientation.w)]

\* the heading robot_angle + trolley_angle + PI about the z axis; NaN if an angle is undefined
setObjectPoseTrolley(object, pose, trolley_angle, robot_angle) ==
    [object EXCEPT
        !.position = pose.position,
        !.quaternion =
            IF trolley_angle.defined /\ robot_angle.defined
            THEN [axis |-> "z", nan |-> FALSE, anglePlusPi |-> robot_angle.value + trolley_angle.value]
            ELSE [axis |-> "z", nan |-> TRUE]]

\* createLineStripMarker that interpolates with i / count
createLineStripMarkerOverCount(message, lineWidth, colorStart, colorEnd) ==
    LET count == Len(message.poses)
    IN  [ header |-> message.header,
          scale |-> Vec3(lineWidth, 1000, 1000),
          points |-> [i \in 1..count |-> message.poses[i].position],
          colors |-> [i \in 1..count |->
                        rgbaGradient(colorStart, colorEnd, Fraction(i - 1, count))] ]

createLineStripMarker(message, lineWidth, colorStart, colorEnd) ==
    LET count == Len(message.poses)
    IN  [ header |-> message.header,
          scale |-> Vec3(lineWidth, 1000, 1000),
          points |-> [i \in 1..count |-> message.poses[i].position],
          colors |-> [i \in 1..count |->
                        rgbaGradient(colorStart, colorEnd, Fraction(i - 1, count - 1))] ]

(***************************************************************************)
(* _updatePoseArrayRenderable                                              *)
(***************************************************************************)
\* releasePools that constructs a line strip in line mode whether or not the entry has one
releasePoolsNewLine(r, poseArrayMessage, settings, colorStart, colorEnd) ==
    LET r1 == IF r.settings.trolley THEN removeTrolley(r) ELSE r
        lineStripMarker == createLineStripMarker(poseArrayMessage, settings.lineWidth,
                                                 colorStart, colorEnd)
    IN  CASE r1.settings.type = "axis" -> removeLineStrip(removeArrows(r1))
          [] r1.settings.type = "arrow" -> removeLineStrip(removeAxes(r1))
          [] r1.settings.type = "line" ->
                LET r2 == removeAxes(removeArrows(r1))
                    id == FreshId(UsedIds(r2, "line"))
                IN  [r2 EXCEPT
                        !.lineStrip = <<Spread(NewObject(id), [marker |-> lineStripMarker])>>,
                        !.children = @ \cup {<<"line", id>>}]
          [] OTHER -> r1

\* lines 733-774: the pools the new settings do not use are released
releasePools(r, poseArrayMessage, settings, colorStart, colorEnd) ==
    LET r1 == IF r.settings.trolley THEN removeTrolley(r) ELSE r
        lineStripMarker == createLineStripMarker(poseArrayMessage, settings.lineWidth,
                                                 colorStart, colorEnd)
    IN  CASE r1.settings.type = "axis" -> removeLineStrip(removeArrows(r1))
          [] r1.settings.type = "arrow" -> removeLineStrip(removeAxes(r1))
          [] r1.settings.type = "line" ->
                LET r2 == removeAxes(removeArrows(r1))
                    id == FreshId(UsedIds(r2, "line"))
                    r3 == IF r2.lineStrip = <<>>
                          THEN [r2 EXCEPT
                                  !.lineStrip = <<Spread(NewObject(id),
                                                         [marker |-> lineStripMarker])>>,
                                  !.children = @ \cup {<<"line", id>>}]
                          ELSE r2
                IN  [r3 EXCEPT !.lineStrip[1].marker = lineStripMarker]
          [] OTHER -> r1

\* lines 779-786: each trolley arrow is placed at its pose with the angles stored for its
\* index
placeTrolleyArrows(t, poseArrayMessage) ==
    [t EXCEPT !.trolley_arrows =
        [i \in DOMAIN @ |->
            IF i <= Len(poseArrayMessage.poses)
            THEN setObjectPoseTrolley(@[i], poseArrayMessage.poses[i],
                                      ElementAt(t.trolley_numbers, i),
                                      ElementAt(t.robot_angle, i))
            ELSE @[i]]]

\* lines 788-811: the pool of the display type is matched to the poses and its objects are
\* placed; in line mode the line object, if there is one, gets a new marker
placePoseObjects(r4, poseArrayMessage, settings, colorStart, colorEnd) ==
    LET count == Len(poseArrayMessage.poses)
    IN  CASE settings.type = "axis" ->
                LET a == createAxesToMatchPoses(r4, poseArrayMessage)
                IN  [a EXCEPT !.axes =
                       [i \in DOMAIN @ |->
                          IF i <= count THEN setObjectPose(@[i], poseArrayMessage.poses[i])
                                        ELSE @[i]]]
          [] settings.type = "arrow" ->
                LET a == createArrowsToMatchPoses(r4, poseArrayMessage, colorStart, colorEnd)
                IN  [a EXCEPT !.arrows =
                       [i \in DOMAIN @ |->
                          IF i <= count THEN setObjectPose(@[i], poseArrayMessage.poses[i])
                                        ELSE @[i]]]
          [] settings.type = "line" ->
                IF r4.lineStrip # <<>>
                THEN [r4 EXCEPT !.lineStrip[1].marker =
                        createLineStripMarker(poseArrayMessage, settings.lineWidth,
                                              colorStart, colorEnd)]
                ELSE r4
          [] OTHER -> r4

updatePoseArrayRenderable(r0, poseArrayMessage, originalMessage, receiveTime, settings) ==
    LET r1 == [r0 EXCEPT
                  !.receiveTime = receiveTime,
                  !.messageTime = toNanoSec(poseArrayMessage.header.stamp),
                  !.frameId = normalizeFrameId(poseArrayMessage.header.frame_id),
                  !.poseArrayMessage = poseArrayMessage,
                  !.originalMessage = originalMessage]
        prevSettings == r1.settings
        axisOrArrowSettingsChanged ==
            \/ settings.trolley # prevSettings.trolley
            \/ settings.type # prevSettings.type
            \/ settings.axisScale # prevSettings.axisScale
            \/ settings.arrowScale # prevSettings.arrowScale
            \/ settings.gradient # prevSettings.gradient
            \/ (Len(r1.arrows) = 0 /\ Len(r1.axes) = 0)
        r2 == [r1 EXCEPT !.settings = settings]
        colorStart == stringToRgba(settings.gradient[1])
        colorEnd == stringToRgba(settings.gradient[2])
        r3 == IF axisOrArrowSettingsChanged
              THEN releasePools(r2, poseArrayMessage, settings, colorStart, colorEnd)
              ELSE r2
        r4 == IF settings.trolley
              THEN placeTrolleyArrows(createTrolleyArrowsToMatchPoses(r3, poseArrayMessage),
                                      poseArrayMessage)
              ELSE r3
    IN  placePoseObjects(r4, poseArrayMessage, settings, colorStart, colorEnd)

\* lines 559-586: the renderable the first message of a topic creates
newPoseArrayRenderable(topic, poseArrayMessage, originalMessage, receiveTime) ==
    [ id |-> NewEntryId(poseRenderables, topic),
      receiveTime |-> receiveTime,
      messageTime |-> toNanoSec(poseArrayMessage.header.stamp),
      frameId |-> normalizeFrameId(poseArrayMessage.header.frame_id),
      pose |-> makePose,
      settings |-> Spread(Spread(POSE_DEFAULT_SETTINGS, [type |-> getDefaultType(topic)]),
                          config[topic]),
      poseArrayMessage |-> poseArrayMessage,
      originalMessage |-> originalMessage,
      axes |-> <<>>,
      arrows |-> <<>>,
      trolley_numbers |-> <<>>,
      trolley_arrows |-> <<>>,
      robot_angle |-> <<>>,
      trolley_length |-> 0,
      lineStrip |-> <<>>,
      children |-> {},
      garbage |-> {} ]

\* the renderable as it is stored, and the objects the call dropped
Stored(r) == [r EXCEPT !.garbage = {}]

addPoseArray(op, topic, poseArrayMessage, originalMessage, receiveTime) ==
    LET renderable == IF HasRenderable(poseRenderables, topic)
                      THEN poseRenderables[topic]
                      ELSE newPoseArrayRenderable(topic, poseArrayMessage, originalMessage,
                                                  receiveTime)
        res == updatePoseArrayRenderable(renderable, poseArrayMessage, originalMessage,
                                         receiveTime, renderable.settings)
    IN  /\ poseRenderables' = MapSet(poseRenderables, topic, Stored(res))
        /\ UNCHANGED <<bridge, panel>>
        /\ last' = Called(op, topic, FALSE, EmptyMap, res.garbage)
        /\ UNCHANGED <<config, gridRenderables, errors>>

normalizePoseArray(poseArray) ==
    [ header |-> IF "header" \in DOMAIN poseArray
                    THEN poseArray.header
                    ELSE [stamp |-> [sec |-> 0, nsec |-> 0], frame_id |-> ""],
      poses |-> IF "poses" \in DOMAIN poseArray THEN poseArray.poses ELSE <<>> ]

handlePoseArray(topic, messageEvent) ==
    addPoseArray("poseArray", topic, normalizePoseArray(messageEvent.message),
                 messageEvent.message, toNanoSec(messageEvent.receiveTime))

MISMATCHED_FRAME_ID == "MISMATCHED_FRAME_ID"

normalizePosesInFrameToPoseArray(poseArray) ==
    [ header |-> [stamp |-> Field(poseArray, "timestamp", [sec |-> 0, nsec |-> 0]),
                  frame_id |-> Field(poseArray, "frame_id", "")],
      poses |-> Field(poseArray, "poses", <<>>) ]

handlePosesInFrame(topic, messageEvent) ==
    addPoseArray("posesInFrame", topic, normalizePosesInFrameToPoseArray(messageEvent.message),
                 messageEvent.message, toNanoSec(messageEvent.receiveTime))

normalizeNavPathToPoseArray(navPath) ==
    LET poses == Field(navPath, "poses", <<>>)
    IN  [ header |-> Field(navPath, "header", NoHeader),
          poses |-> [i \in DOMAIN poses |-> Field(poses[i], "pose", makePose)] ]

\* validateNavPath: the diagnostics of the topic after the loop over the poses; every pose
\* whose frame differs from the frame of the path sets the diagnostic again
validateNavPath(topic, navPath) ==
    LET poses == Field(navPath, "poses", <<>>)
        baseFrameId == normalizeFrameId(Field(navPath, "header", NoHeader).frame_id)
        curFrameId(i) == normalizeFrameId(Field(poses[i], "header", NoHeader).frame_id)
        mismatched == {i \in DOMAIN poses : curFrameId(i) # baseFrameId}
        lastOne == CHOOSE i \in mismatched : \A j \in mismatched : j <= i
    IN  IF mismatched = {} THEN errors
        ELSE [errors EXCEPT ![topic] =
                MapSet(@, MISMATCHED_FRAME_ID,
                       [ text |-> "Path frame does not match frames of all poses. \"${0}\" != \"${1}\"",
                         args |-> <<baseFrameId, curFrameId(lastOne)>> ])]

\* handleNavPath that drops a path after attaching a diagnostic to its topic
handleNavPathRejecting(topic, messageEvent) ==
    LET poseArrayMessage == normalizeNavPathToPoseArray(messageEvent.message)
        receiveTime == toNanoSec(messageEvent.receiveTime)
        renderable == IF HasRenderable(poseRenderables, topic)
                      THEN poseRenderables[topic]
                      ELSE newPoseArrayRenderable(topic, poseArrayMessage, messageEvent.message,
                                                  receiveTime)
        res == updatePoseArrayRenderable(renderable, poseArrayMessage, messageEvent.message,
                                         receiveTime, renderable.settings)
        rejected == validateNavPath(topic, messageEvent.message) # errors
    IN  /\ errors' = validateNavPath(topic, messageEvent.message)
        /\ poseRenderables' = IF rejected THEN poseRenderables
                              ELSE MapSet(poseRenderables, topic, Stored(res))
        /\ UNCHANGED <<bridge, panel>>
        /\ last' = Called("navPath", topic, FALSE, EmptyMap, IF rejected THEN {} ELSE res.garbage)
        /\ UNCHANGED <<config, gridRenderables>>

\* PoseArrays.handleNavPath: validateNavPath never rejects, then addPoseArray
handleNavPath(topic, messageEvent) ==
    LET poseArrayMessage == normalizeNavPathToPoseArray(messageEvent.message)
        receiveTime == toNanoSec(messageEvent.receiveTime)
        renderable == IF HasRenderable(poseRenderables, topic)
                      THEN poseRenderables[topic]
                      ELSE newPoseArrayRenderable(topic, poseArrayMessage, messageEvent.message,
                                                  receiveTime)
        res == updatePoseArrayRenderable(renderable, poseArrayMessage, messageEvent.message,
                                         receiveTime, renderable.settings)
    IN  /\ errors' = validateNavPath(topic, messageEvent.message)
        /\ poseRenderables' = MapSet(poseRenderables, topic, Stored(res))
        /\ UNCHANGED <<bridge, panel>>
        /\ last' = Called("navPath", topic, FALSE, EmptyMap, res.garbage)
        /\ UNCHANGED <<config, gridRenderables>>

\* the cosine and the sine of k quarter turns
CosQuarter(k) == CASE k % 4 = 0 -> 1 [] k % 4 = 2 -> -1 [] OTHER -> 0

SinQuarter(k) == CASE k % 4 = 1 -> 1 [] k % 4 = 3 -> -1 [] OTHER -> 0

\* THREE.Quaternion.setFromEuler(new THREE.Euler(x, 0, z)), order XYZ, for angles that are
\* whole numbers of half turns (angles are counted in half turns, so the half angles are
\* quarter turns): with c1, s1 of x / 2 and c3, s3 of z / 2 the quaternion is
\* (s1 * c3, -s1 * s3, c1 * s3, c1 * c3)
quaternionFromEuler(x, z) ==
    Quat(SinQuarter(x) * CosQuarter(z), (-1) * SinQuarter(x) * SinQuarter(z),
         CosQuarter(x) * SinQuarter(z), CosQuarter(x) * CosQuarter(z))

normalizeMirPose(input_pose) ==
    [ position |-> Vec3(Field(input_pose, "pose_x", 0), Field(input_pose, "pose_y", 0),
                        Field(input_pose, "velocity_x", 0)),
      orientation |-> quaternionFromEuler(-1 * Field(input_pose, "velocity_theta", 0),
                                          input_pose.pose_theta) ]

normalizeMirPoseArray(poseArray) ==
    LET path == Field(poseArray, "path", <<>>)
    IN  [ header |-> Field(poseArray, "header", NoHeader),
          poses |-> [i \in DOMAIN path |-> normalizeMirPose(path[i])] ]

\* PoseArrays.handleMirRobotStatePath
handleMirRobotStatePath(topic, messageEvent) ==
    LET message == messageEvent.message
        poseArrayMessage == normalizeMirPoseArray(message)
        receiveTime == toNanoSec(messageEvent.receiveTime)
        renderable == IF HasRenderable(poseRenderables, topic)
                      THEN poseRenderables[topic]
                      ELSE newPoseArrayRenderable(topic, poseArrayMessage, message, receiveTime)
        path == Field(message, "path", <<>>)
        r1 == IF Field(message, "has_trolley", FALSE) = TRUE
              THEN [renderable EXCEPT
                      !.trolley_length = Field(message, "robot_to_trolley_dist", 0),
                      !.robot_angle = [i \in DOMAIN path |-> Field(path[i], "pose_theta", 0)],
                      !.trolley_numbers = [i \in DOMAIN path |-> Field(path[i], "hook_angle", 0)]]
              ELSE renderable
        res == updatePoseArrayRenderable(r1, poseArrayMessage, message, receiveTime, r1.settings)
    IN  /\ poseRenderables' = MapSet(poseRenderables, topic, Stored(res))
        /\ UNCHANGED <<bridge, panel>>
        /\ last' = Called("mirPath", topic, FALSE, EmptyMap, res.garbage)
        /\ UNCHANGED <<config, gridRenderables, errors>>

\* handleSettingsAction that creates the entry of a topic that has none, around an empty
\* pose array
poseHandleSettingsActionCreating(action, topic, field, value) ==
    IF action # "update"
    THEN /\ UNCHANGED <<bridge, panel>>
         /\ last' = Called("poseSettingsIgnored", topic, FALSE, EmptyMap, {})
         /\ UNCHANGED <<config, gridRenderables, poseRenderables, errors>>
    ELSE LET newConfig == saveSetting(topic, field, value)
             empty == [header |-> NoHeader, poses |-> <<>>]
             renderable == IF topic \in DOMAIN poseRenderables
                           THEN poseRenderables[topic]
                           ELSE newPoseArrayRenderable(topic, empty, empty, 0)
             res == updatePoseArrayRenderable(
                        renderable, renderable.poseArrayMessage,
                        renderable.originalMessage, renderable.receiveTime,
                        Spread(POSE_DEFAULT_SETTINGS, newConfig[topic]))
         IN  /\ config' = newConfig
             /\ UNCHANGED <<gridRenderables, errors>>
             /\ poseRenderables' = MapSet(poseRenderables, topic, Stored(res))
             /\ UNCHANGED <<bridge, panel>>
             /\ last' = Called("poseSettings", topic, FALSE, EmptyMap, res.garbage)

\* PoseArrays.handleSettingsAction
poseHandleSettingsAction(action, topic, field, value) ==
    IF action # "update"
    THEN /\ UNCHANGED <<bridge, panel>>
         /\ last' = Called("poseSettingsIgnored", topic, FALSE, EmptyMap, {})
         /\ UNCHANGED <<config, gridRenderables, poseRenderables, errors>>
    ELSE LET newConfig == saveSetting(topic, field, value)
         IN  /\ config' = newConfig
             /\ UNCHANGED <<gridRenderables, errors>>
             /\ IF topic \in DOMAIN poseRenderables
                THEN LET renderable == poseRenderables[topic]
                         res == updatePoseArrayRenderable(
                                    renderable, renderable.poseArrayMessage,
                                    renderable.originalMessage, renderable.receiveTime,
                                    Spread(POSE_DEFAULT_SETTINGS, newConfig[topic]))
                     IN  /\ poseRenderables' = MapSet(poseRenderables, topic, Stored(res))
                         /\ UNCHANGED <<bridge, panel>>
                         /\ last' = Called("poseSettings", topic, FALSE, EmptyMap, res.garbage)
                ELSE /\ UNCHANGED poseRenderables
                     /\ UNCHANGED <<bridge, panel>>
                     /\ last' = Called("poseSettings", topic, FALSE, EmptyMap, {})

\* Renderable.dispose: the scene-graph children are dropped
renderableDispose(r) == [r EXCEPT !.children = {}]

\* PoseArrayRenderable.dispose that shifts each axis out of the pool while iterating it, so
\* that every other axis is skipped
disposePoseArrayRenderableShifting(r) ==
    renderableDispose(
        [r EXCEPT
            !.axes = [i \in 1..(Len(@) \div 2) |-> @[2 * i]],
            !.arrows = [i \in DOMAIN @ |-> [@[i] EXCEPT !.disposed = TRUE]],
            !.lineStrip = [i \in DOMAIN @ |-> [@[i] EXCEPT !.disposed = TRUE]]])

\* PoseArrayRenderable.dispose
disposePoseArrayRenderable(r) ==
    renderableDispose(
        [r EXCEPT
            !.axes = [i \in DOMAIN @ |-> [@[i] EXCEPT !.disposed = TRUE]],
            !.arrows = [i \in DOMAIN @ |-> [@[i] EXCEPT !.disposed = TRUE]],
            !.lineStrip = [i \in DOMAIN @ |-> [@[i] EXCEPT !.disposed = TRUE]]])

(***************************************************************************)
(* Inputs of the pose handlers                                             *)
(***************************************************************************)
PoseAt(v, i) == MkPose(Vec3(v, i, 0), Quat(0, 0, v, 1))

PoseArrayMessage(n, v) ==
    [ header |-> [stamp |-> [sec |-> v, nsec |-> 5], frame_id |-> FrameOf(v)],
      poses |-> [i \in 1..n |-> PoseAt(v, i)] ]

\* variant 1 in every length up to max, variant 2 with one pose
PoseArrayEvents(max) ==
    { [receiveTime |-> [sec |-> m.header.stamp.sec, nsec |-> 7], message |-> m] :
        m \in {PoseArrayMessage(n, 1) : n \in 0..max} \cup {PoseArrayMessage(1, 2)} }

OTHER_GRADIENT_STR == <<Css(255, 0, 0, 100), Css(0, 0, 255, 100)>>

(***************************************************************************)
(* The actions of the pose extension                                       *)
(***************************************************************************)
PoseMessage ==
    \E topic \in PoseTopics, ev \in PoseArrayEvents(MaxPoses) :
        handlePoseArray(topic, ev)

PoseSettings ==
    \E topic \in PoseTopics, action \in {"update", "perform-node-action"},
       setting \in ({"type"} \X {"axis", "arrow", "line"})
                   \cup ({"trolley"} \X BOOLEAN)
                   \cup {<<"gradient", OTHER_GRADIENT_STR>>} :
        poseHandleSettingsAction(action, topic, setting[1], setting[2])

\* SceneExtension.removeAllRenderables: every renderable is disposed and the registry cleared.
\* The disposed renderables stay in last.disposed, where their owner can still reach them.
PoseRemoveAll ==
    /\ poseRenderables # EmptyMap
    /\ poseRenderables' = EmptyMap
    /\ UNCHANGED <<bridge, panel>>
    /\ last' = Called("poseRemoveAll", "", FALSE,
                      [t \in DOMAIN poseRenderables |->
                          disposePoseArrayRenderable(poseRenderables[t])], {})
    /\ UNCHANGED <<config, gridRenderables, errors>>

NextPose == PoseMessage \/ PoseSettings \/ PoseRemoveAll

SpecPose == Init /\ [][NextPose]_vars

\* the scenario of one topic that only receives pose arrays, with the settings left alone
ScenarioEvents ==
    { [receiveTime |-> [sec |-> m.header.stamp.sec, nsec |-> 7], message |-> m] :
        m \in {PoseArrayMessage(n, v) : n \in 0..ScenarioPoses, v \in Variants} }

ScenarioMessage ==
    \E ev \in ScenarioEvents : handlePoseArray("/poses", ev)

SpecScenario == Init /\ [][ScenarioMessage]_vars

(***************************************************************************)
(* Both extensions together, on a small set of inputs                      *)
(***************************************************************************)
CoreGridEvents ==
    { [receiveTime |-> [sec |-> m.header.stamp.sec, nsec |-> 7], message |-> m] :
        m \in { GridMessage(1, 1, RawData(1, 1), 1),
                GridMessage(1, 1, RawData(0, 1), 1),
                GridMessage(MaxWidth, 1, PngData(MaxWidth, 2), 2) } }

GridMessageCore ==
    \E topic \in GridTopics, ev \in CoreGridEvents :
        handleOccupancyGrid("grid", topic, ev)

PoseMessageCore ==
    \E topic \in PoseTopics, ev \in PoseArrayEvents(MaxPoses - 1) :
        handlePoseArray(topic, ev)

PoseSettingsCore ==
    \E topic \in PoseTopics,
       setting \in ({"type"} \X {"arrow", "line"}) \cup {<<"trolley", TRUE>>} :
        poseHandleSettingsAction("update", topic, setting[1], setting[2])

\* removeAllRenderables of both extensions, as when the renderer clears its scene: every
\* renderable is disposed and both registries are cleared.  The disposed renderables stay
\* in last.disposed, where their owner can still reach them.
RemoveAll ==
    /\ gridRenderables # EmptyMap
    /\ poseRenderables # EmptyMap
    /\ gridRenderables' = EmptyMap
    /\ poseRenderables' = EmptyMap
    /\ last' = Called("removeAll", "", FALSE,
                      [t \in DOMAIN gridRenderables \cup DOMAIN poseRenderables |->
                          IF t \in DOMAIN gridRenderables
                          THEN disposeOccupancyGridRenderable(gridRenderables[t])
                          ELSE disposePoseArrayRenderable(poseRenderables[t])], {})
    /\ UNCHANGED <<config, errors, bridge, panel>>

\* dispose() is called once more on each of the renderables just released.  The two
\* methods (part_001:328-333, OccupancyGrids.ts:68-72) change no field of userData, so the
\* second call makes the calls of the first on the same objects: dispose() of every axis
\* and arrow in the pools, of the line strip if there is one, of the texture and of the
\* two materials, and Renderable.dispose.  None of those methods is in src: each is taken
\* to release its object, which is then disposed, and not to throw.
DisposeAgain ==
    /\ last.op \in {"gridRemoveAll", "poseRemoveAll", "removeAll"}
    /\ last' = Called("disposeAgain", "", FALSE,
                      [t \in DOMAIN last.disposed |->
                          IF "texture" \in DOMAIN last.disposed[t]
                          THEN disposeOccupancyGridRenderable(last.disposed[t])
                          ELSE disposePoseArrayRenderable(last.disposed[t])], {})
    /\ UNCHANGED <<config, gridRenderables, poseRenderables, errors, bridge, panel>>

Next ==
    \/ GridMessageCore
    \/ PoseMessageCore
    \/ PoseSettingsCore
    \/ GridRemoveAll
    \/ PoseRemoveAll
    \/ RemoveAll
    \/ DisposeAgain

Spec == Init /\ [][Next]_vars

(***************************************************************************)
(* Properties of the pose extension                                        *)
(***************************************************************************)
\* the pool of the display type of a renderable ("line" has none)
ActivePool(r) ==
    CASE r.settings.type = "axis" -> r.axes
      [] r.settings.type = "arrow" -> r.arrows
      [] OTHER -> <<>>

PoseCount(r) == Len(r.poseArrayMessage.poses)

Visible(pool) == {i \in DOMAIN pool : pool[i].visible}

\* the step is a message on pose topic t
PoseMessageStep(t) == last'.op = "poseArray" /\ last'.topic = t

\* C5: in axis or arrow mode, after every pose-array message the visible children of the
\* active pool are exactly those at the indices of the poses, the children past the pose
\* count are hidden and still in the pool, and every child the pool held before the message
\* is the same object at the same index after it.
C5_PoolMatchesPoses ==
    [][ \A t \in PoseTopics :
          (PoseMessageStep(t) /\ poseRenderables'[t].settings.type \in {"axis", "arrow"}) =>
            LET r == poseRenderables'[t]
                pool == ActivePool(r)
            IN  /\ Visible(pool) = 1..PoseCount(r)
                /\ Len(pool) >= PoseCount(r)
                /\ \A i \in DOMAIN pool : ~pool[i].disposed /\ <<r.settings.type, pool[i].id>> \in r.children
                /\ t \in DOMAIN poseRenderables =>
                      LET before == ActivePool(poseRenderables[t])
                      IN  /\ Len(pool) >= Len(before)
                          /\ \A i \in DOMAIN before : pool[i].id = before[i].id ]_vars

\* C5 witness: an arrow pool that shrank (hidden children past the pose count) and is
\* partly shown again
C5_Witness ==
    \E t \in DOMAIN poseRenderables :
        LET r == poseRenderables[t] IN
        /\ last.op = "poseArray"
        /\ r.settings.type = "arrow"
        /\ Len(r.arrows) = MaxPoses
        /\ PoseCount(r) = 2
        /\ ~r.arrows[MaxPoses].visible

\* the axis pool before the third message of the scenario: three axes, only the first shown
AfterThreeThenOne(r) ==
    /\ r.settings = POSE_DEFAULT_SETTINGS
    /\ Len(r.axes) = 3
    /\ Visible(r.axes) = {1}
    /\ PoseCount(r) = 1

\* C6 (as claimed): in axis mode with default settings, after 3 poses and then 1 pose, a
\* message of 5 poses gives a pool of 5 made of 4 existing children and 1 new child
C6_FourReshownOneNew ==
    [][ \A t \in PoseTopics :
          ( /\ PoseMessageStep(t)
            /\ t \in DOMAIN poseRenderables
            /\ AfterThreeThenOne(poseRenderables[t])
            /\ PoseCount(poseRenderables'[t]) = 5 ) =>
            LET before == Ids(poseRenderables[t].axes)
                after == Ids(poseRenderables'[t].axes)
            IN  /\ Len(poseRenderables'[t].axes) = 5
                /\ Cardinality(after \cap before) = 4
                /\ Cardinality(after \ before) = 1 ]_vars

\* C6 (amended): in axis mode with default settings, 3 poses give a pool of 3 shown axes;
\* 1 pose then leaves the same 3 axes, the first shown and 2 hidden; 5 poses then give a pool
\* of 5 shown axes, the 3 existing ones (2 of them shown again) followed by 2 new ones; and
\* after every message with a pose, the first axis has the position and orientation of the
\* first pose of that message.
C6_ThreeKeptTwoNew ==
    [][ \A t \in PoseTopics :
          (PoseMessageStep(t) /\ poseRenderables'[t].settings = POSE_DEFAULT_SETTINGS) =>
            LET r == poseRenderables'[t]
                n == PoseCount(r)
            IN  /\ (t \notin DOMAIN poseRenderables /\ n = 3) =>
                      (Len(r.axes) = 3 /\ Visible(r.axes) = 1..3)
                /\ ( /\ t \in DOMAIN poseRenderables
                     /\ Len(poseRenderables[t].axes) = 3
                     /\ Visible(poseRenderables[t].axes) = 1..3
                     /\ n = 1 ) =>
                      /\ Len(r.axes) = 3
                      /\ Visible(r.axes) = {1}
                      /\ \A i \in 1..3 : r.axes[i].id = poseRenderables[t].axes[i].id
                /\ (t \in DOMAIN poseRenderables /\ AfterThreeThenOne(poseRenderables[t]) /\ n = 5) =>
                      /\ Len(r.axes) = 5
                      /\ Visible(r.axes) = 1..5
                      /\ \A i \in 1..3 : r.axes[i].id = poseRenderables[t].axes[i].id
                      /\ Cardinality(Ids(r.axes) \ Ids(poseRenderables[t].axes)) = 2
                /\ n >= 1 =>
                      /\ r.axes[1].position = r.poseArrayMessage.poses[1].position
                      /\ r.axes[1].quaternion = r.poseArrayMessage.poses[1].orientation ]_vars

\* C6 witness: three axes of which only the first is shown, the first at pose 0 of a later
\* message than the one that placed the hidden two
C6_Witness ==
    \E t \in DOMAIN poseRenderables :
        LET r == poseRenderables[t] IN
        /\ AfterThreeThenOne(r)
        /\ r.axes[1].position = PoseAt(2, 1).position
        /\ r.axes[2].position = PoseAt(1, 2).position
        /\ r.axes[3].position = PoseAt(1, 3).position

\* C7: in every state only the pool of the display type of a renderable holds objects (axis:
\* no arrows, no line strip; arrow: no axes, no line strip; line: no axes, no arrows), no
\* object of another display type is among its children, and every object the last call
\* dropped from a pool was removed from the children and disposed.
C7_OnlyActivePool ==
    /\ \A t \in DOMAIN poseRenderables :
          LET r == poseRenderables[t] IN
          /\ r.settings.type = "axis" => (r.arrows = <<>> /\ r.lineStrip = <<>>)
          /\ r.settings.type = "arrow" => (r.axes = <<>> /\ r.lineStrip = <<>>)
          /\ r.settings.type = "line" => (r.axes = <<>> /\ r.arrows = <<>>)
          /\ \A c \in r.children : c[1] \in {r.settings.type, "trolley"}
    /\ \A g \in last.released : g.disposed /\ ~g.attached

\* C7 witness: a settings action has just switched a renderable from arrows to axes
C7_Witness ==
    \E t \in DOMAIN poseRenderables :
        LET r == poseRenderables[t] IN
        /\ last.op = "poseSettings"
        /\ r.settings.type = "axis"
        /\ Len(r.axes) >= 2
        /\ \E g \in last.released : g.kind = "arrow"

\* C8 (as claimed): a settings action that turns the trolley attachment off leaves the
\* trolley pool empty and none of its arrows attached
C8_TrolleyOffReleasesPool ==
    [][ \A t \in PoseTopics :
          ( /\ last'.op = "poseSettings" /\ last'.topic = t
            /\ t \in DOMAIN poseRenderables
            /\ poseRenderables[t].settings.trolley
            /\ ~poseRenderables'[t].settings.trolley ) =>
            /\ poseRenderables'[t].trolley_arrows = <<>>
            /\ \A c \in poseRenderables'[t].children : c[1] # "trolley" ]_vars

\* C9 (as claimed): after dispose every object of the axis pool, the arrow pool, the trolley
\* pool and the line strip of a pose renderable is disposed, and the texture, material and
\* picking material of a grid renderable are disposed
C9_DisposeReleasesEverything ==
    /\ last.op = "poseRemoveAll" =>
          \A t \in DOMAIN last.disposed :
              LET r == last.disposed[t] IN
              \A pool \in {r.axes, r.arrows, r.trolley_arrows, r.lineStrip} :
                  \A i \in DOMAIN pool : pool[i].disposed
    /\ last.op = "gridRemoveAll" =>
          \A t \in DOMAIN last.disposed :
              LET r == last.disposed[t] IN
              /\ r.texture.id \in r.disposedTextures
              /\ r.materialDisposed
              /\ r.pickingMaterialDisposed

Event(m, sec) == [receiveTime |-> [sec |-> sec, nsec |-> 7], message |-> m]

\* a vendor costmap; HasData = FALSE leaves the data field out
CostmapMessage(width, height, data, hasData, v) ==
    LET fixed == [ header |-> [stamp |-> [sec |-> v, nsec |-> 5], frame_id |-> FrameOf(v)],
                   resolution |-> 1, width |-> width, height |-> height,
                   offset_x |-> v, offset_y |-> 0 ]
    IN  IF hasData
        THEN [f \in DOMAIN fixed \cup {"data"} |-> IF f = "data" THEN data ELSE fixed[f]]
        ELSE fixed

PosesInFrameMessage(n, v) ==
    [ timestamp |-> [sec |-> v, nsec |-> 5], frame_id |-> FrameOf(v),
      poses |-> [i \in 1..n |-> PoseAt(v, i)] ]

\* a path of n poses; the last pose is stamped with the frame of variant w
NavPathMessage(n, v, w) ==
    [ header |-> [stamp |-> [sec |-> v, nsec |-> 5], frame_id |-> FrameOf(v)],
      poses |-> [i \in 1..n |->
                    [ header |-> [stamp |-> [sec |-> v, nsec |-> 5],
                                  frame_id |-> FrameOf(IF i = n THEN w ELSE v)],
                      pose |-> PoseAt(v, i) ]] ]

MirPathMessage(n, v, has_trolley) ==
    [ header |-> [stamp |-> [sec |-> v, nsec |-> 5], frame_id |-> FrameOf(v)],
      path |-> [i \in 1..n |->
                  [pose_x |-> v, pose_y |-> i, pose_theta |-> i, velocity_x |-> 0,
                   velocity_theta |-> i - 1, hook_angle |-> v]],
      has_trolley |-> has_trolley,
      robot_to_trolley_dist |-> 100 ]

ChannelGrid ==
    \E m \in { GridMessage(1, 1, RawData(1, 1), 1), GridMessage(1, 1, RawData(0, 2), 2) } :
        handleOccupancyGrid("grid", "/map", Event(m, m.header.stamp.sec))

ChannelCostmap ==
    \E m \in { CostmapMessage(1, 1, <<64>>, TRUE, 1), CostmapMessage(1, 1, <<>>, FALSE, 2) } :
        handleCostmapData("/costmap", Event(m, m.header.stamp.sec))

ChannelPoseArray ==
    \E m \in { PoseArrayMessage(1, 1), PoseArrayMessage(0, 2) } :
        handlePoseArray("/poses", Event(m, m.header.stamp.sec))

ChannelPosesInFrame ==
    handlePosesInFrame("/poses_in_frame", Event(PosesInFrameMessage(1, 1), 1))

ChannelNavPath ==
    handleNavPath("/path", Event(NavPathMessage(2, 1, 2), 1))

ChannelMirPath ==
    handleMirRobotStatePath("/mir_path", Event(MirPathMessage(1, 1, TRUE), 1))

ChannelSettings ==
    \/ \E topic \in {"/poses", "/path"} :
          poseHandleSettingsAction("update", topic, "type", "arrow")
    \/ gridHandleSettingsAction("update", "/map", "frameLocked", TRUE)

NextChannels ==
    \/ ChannelGrid
    \/ ChannelCostmap
    \/ ChannelPoseArray
    \/ ChannelPosesInFrame
    \/ ChannelNavPath
    \/ ChannelMirPath
    \/ ChannelSettings

SpecChannels == Init /\ [][NextChannels]_vars

(***************************************************************************)
(* Properties of the registries                                            *)
(***************************************************************************)
GridMessageOps == {"grid", "costmap"}
PoseMessageOps == {"poseArray", "posesInFrame", "navPath", "mirPath"}
SettingsOps == {"gridSettings", "gridSettingsIgnored", "poseSettings", "poseSettingsIgnored"}

\* the registry the handler of an operation works on, before and after the step
RegistryOf(op) == IF op \in GridMessageOps THEN gridRenderables ELSE poseRenderables
RegistryAfter(op) == IF op \in GridMessageOps THEN gridRenderables' ELSE poseRenderables'

\* C11 (as claimed): after every message of every adapter the channel has an entry registered
\* under its name, and if it had one before the message it is the same entry object
C11_OneEntryPerChannel ==
    [][ last'.op \in GridMessageOps \cup PoseMessageOps =>
          LET t == last'.topic
              before == RegistryOf(last'.op)
              after == RegistryAfter(last'.op)
          IN  /\ t \in DOMAIN after
              /\ t \in DOMAIN before => after[t].id = before[t].id ]_vars

\* C12: no message and no settings action takes an entry out of a registry or disposes it:
\* every entry registered before the step is registered after it as the same object, a grid
\* entry with its material, picking material and current texture undisposed, a pose entry
\* with every object of its pools undisposed.
C12_EntriesStayRegistered ==
    [][ last'.op \in GridMessageOps \cup PoseMessageOps \cup SettingsOps =>
          /\ \A t \in DOMAIN gridRenderables :
                /\ t \in DOMAIN gridRenderables'
                /\ gridRenderables'[t].id = gridRenderables[t].id
                /\ ~gridRenderables'[t].materialDisposed
                /\ ~gridRenderables'[t].pickingMaterialDisposed
                /\ gridRenderables'[t].texture.id \notin gridRenderables'[t].disposedTextures
          /\ \A t \in DOMAIN poseRenderables :
                /\ t \in DOMAIN poseRenderables'
                /\ poseRenderables'[t].id = poseRenderables[t].id
                /\ LET r == poseRenderables'[t] IN
                   \A pool \in {r.axes, r.arrows, r.trolley_arrows, r.lineStrip} :
                       \A i \in DOMAIN pool : ~pool[i].disposed ]_vars

\* C12 witness: a rejected grid message has been handled while four other channels have
\* entries
C12_Witness ==
    /\ last.op = "grid"
    /\ "/map" \in DOMAIN gridRenderables
    /\ INVALID_OCCUPANCY_GRID \in DOMAIN errors["/map"]
    /\ Len(gridRenderables["/map"].occupancyGrid.data) = 0
    /\ "/costmap" \in DOMAIN gridRenderables
    /\ {"/poses", "/path", "/mir_path"} \subseteq DOMAIN poseRenderables

\* C13: a message or a settings action for one channel, rejected and failed ones included,
\* leaves the entry and the diagnostics of every other channel as they were.
C13_OtherChannelsUntouched ==
    [][ last'.op \in GridMessageOps \cup PoseMessageOps \cup SettingsOps =>
          \A u \in AllTopics \ {last'.topic} :
              /\ u \in DOMAIN gridRenderables =>
                    (u \in DOMAIN gridRenderables' /\ gridRenderables'[u] = gridRenderables[u])
              /\ u \in DOMAIN poseRenderables =>
                    (u \in DOMAIN poseRenderables' /\ poseRenderables'[u] = poseRenderables[u])
              /\ u \notin DOMAIN gridRenderables => u \notin DOMAIN gridRenderables'
              /\ u \notin DOMAIN poseRenderables => u \notin DOMAIN poseRenderables'
              /\ errors'[u] = errors[u] ]_vars

\* C13 witness: a costmap without data has just failed while the grid channel holds a
\* diagnostic and a path channel holds one too
C13_Witness ==
    /\ last.op = "costmap"
    /\ last.thrown
    /\ "/map" \in DOMAIN gridRenderables
    /\ INVALID_OCCUPANCY_GRID \in DOMAIN errors["/map"]
    /\ MISMATCHED_FRAME_ID \in DOMAIN errors["/path"]
    /\ "/poses" \in DOMAIN poseRenderables

(***************************************************************************)
(* The costmap channel: vendor costmaps of every size up to the bounds,    *)
(* each with ceil(width * height / 4) packed bytes, and a costmap without  *)
(* data; and a grid channel that receives an image that does not decode    *)
(***************************************************************************)
PackedBytes == {27, 228}                  \* 0b00011011 and 0b11100100

RECURSIVE SeqsOver(_, _)
SeqsOver(S, n) ==
    IF n = 0 THEN {<<>>}
    ELSE {Append(q, x) : q \in SeqsOver(S, n - 1), x \in S}

\* the packed byte count of a costmap of width * height cells
PackedLength(width, height) == (width * height + 3) \div 4

CostmapInputs ==
    { CostmapMessage(x[1], x[2], x[3], TRUE, 1) :
        x \in { x \in (1..MaxCostmapWidth) \X (1..MaxCostmapHeight)
                      \X UNION { SeqsOver(PackedBytes, n) :
                                   n \in 1..PackedLength(MaxCostmapWidth, MaxCostmapHeight) } :
                  Len(x[3]) = PackedLength(x[1], x[2]) } }
        \cup { CostmapMessage(1, 1, <<>>, FALSE, 1) }

CostmapMessage_ ==
    \E m \in CostmapInputs : handleCostmapData("/costmap", Event(m, m.header.stamp.sec))

CostmapGridMessage ==
    \E m \in { GridMessage(1, 1, png_signature, 1), GridMessage(1, 1, RawData(1, 1), 1) } :
        handleOccupancyGrid("grid", "/map", Event(m, m.header.stamp.sec))

NextCostmap ==
    \/ CostmapMessage_
    \/ CostmapGridMessage

SpecCostmap == Init /\ [][NextCostmap]_vars

(***************************************************************************)
(* Properties of the costmap adapter                                       *)
(***************************************************************************)
\* bit i of a byte (bit 0 is the least significant)
Bit(v, i) == (v \div (2 ^ i)) % 2

\* the 2-bit field of a packed byte at a bit offset
TwoBits(byte, offset) == 2 * Bit(byte, offset + 1) + Bit(byte, offset)

\* C14 (as claimed): no message makes its handler raise an error
C14_NoHandlerThrows ==
    last.op \in GridMessageOps \cup PoseMessageOps => ~last.thrown

\* C15 (as claimed): for every costmap, the grid stored by its handler has, for every cell
\* k < width * height, the 2-bit field of packed byte floor(k / 4) at bit offset
\* 6 - (k mod 4) * 2
C15_CostmapUnpacked ==
    [][ \A m \in CostmapInputs :
          ("data" \in DOMAIN m /\ handleCostmapData("/costmap", Event(m, m.header.stamp.sec))) =>
            LET out == gridRenderables'["/costmap"].occupancyGrid.data
            IN  \A k \in 0..(m.width * m.height - 1) :
                    /\ k + 1 \in DOMAIN out
                    /\ out[k + 1] = TwoBits(m.data[(k \div 4) + 1], 6 - (k % 4) * 2) ]_vars

\* C16 (as claimed): the grid a costmap is converted to has width * height cells and passes
\* the dimension check
C16_CostmapAccepted ==
    (last.op = "costmap" /\ ~last.thrown) =>
        LET g == gridRenderables[last.topic].occupancyGrid
        IN  /\ Len(g.data) = g.info.width * g.info.height
            /\ INVALID_OCCUPANCY_GRID \notin DOMAIN errors[last.topic]

(***************************************************************************)
(* The palettes: one grid channel, chosen among the palette topics, that   *)
(* receives grids of one cell.  The first grid holds any byte value, each  *)
(* later grid the byte value after the one of the grid before it.          *)
(***************************************************************************)
Int8Values == -128..127

InitPalette ==
    \E topic \in PaletteTopics :
        /\ config = [t \in {topic} |-> EmptyMap]
        /\ errors = [t \in {topic} |-> EmptyMap]
        /\ gridRenderables = EmptyMap
        /\ poseRenderables = EmptyMap
        /\ last = Called("init", "", FALSE, EmptyMap, {})
        /\ bridge = NoBridge
        /\ panel = NoPanel

PaletteMessage ==
    \E topic \in DOMAIN config, value \in Int8Values :
        /\ topic \in DOMAIN gridRenderables =>
              value = ToInt8(gridRenderables[topic].occupancyGrid.data[1] + 1)
        /\ handleOccupancyGrid("grid", topic, Event(GridMessage(1, 1, <<value>>, 1), 1))

SpecPalette == InitPalette /\ [][PaletteMessage]_vars

\* the value of the cell of a one-cell grid as an unsigned byte, and its texel
CellByte(r) ==
    LET d == r.occupancyGrid.data[1] IN IF d < 0 THEN d + 256 ELSE d

CellTexel(r) == SubSeq(r.texture.data, 1, 4)

\* every bit of a set of bit positions is set in v
HasBits(v, bits) == \A i \in bits : Bit(v, i) = 1

If(b, x) == IF b THEN x ELSE 0

\* C17: on /one_way_map, for every byte value v, red, green and blue of the texel are the
\* bits of the wedges whose mask is contained in v (red: 0b11000111 -> 128, 0b00011111 -> 32,
\* 0b11110001 -> 64; green: 0b10001111 -> 64, 0b01111100 -> 32, 0b11111000 -> 128; blue:
\* 0b00111110 -> 128, 0b11100011 -> 64), alpha is 0 if v = 255 and 128 otherwise, and
\* v = 0b11100100 gives (0, 0, 0, 128).
C17_OneWayPalette ==
    \A t \in DOMAIN gridRenderables \cap {"/one_way_map"} :
        LET r == gridRenderables[t]
            v == CellByte(r)
            red == If(HasBits(v, {7, 6, 2, 1, 0}), 128) + If(HasBits(v, {4, 3, 2, 1, 0}), 32)
                     + If(HasBits(v, {7, 6, 5, 4, 0}), 64)
            green == If(HasBits(v, {7, 3, 2, 1, 0}), 64) + If(HasBits(v, {6, 5, 4, 3, 2}), 32)
                       + If(HasBits(v, {7, 6, 5, 4, 3}), 128)
            blue == If(HasBits(v, {5, 4, 3, 2, 1}), 128) + If(HasBits(v, {7, 6, 5, 1, 0}), 64)
            alpha == IF v = 255 THEN 0 ELSE 128
        IN  /\ CellTexel(r) = <<red, green, blue, alpha>>
            /\ v = 228 => CellTexel(r) = <<0, 0, 0, 128>>

\* C17 witness: the one-way channel shows the cell value 0b11100100
C17_Witness ==
    /\ "/one_way_map" \in DOMAIN gridRenderables
    /\ CellByte(gridRenderables["/one_way_map"]) = 228
    /\ gridRenderables["/one_way_map"].texture.needsUpdate

\* C18: on /traffic_map the cell value 0 gives (0, 255, 0, 128), 100 gives (0, 0, 255, 128)
\* and every other byte value gives a texel with alpha 0.
C18_TrafficPalette ==
    \A t \in DOMAIN gridRenderables \cap {"/traffic_map"} :
        LET r == gridRenderables[t]
            v == CellByte(r)
        IN  /\ v = 0 => CellTexel(r) = <<0, 255, 0, 128>>
            /\ v = 100 => CellTexel(r) = <<0, 0, 255, 128>>
            /\ v \notin {0, 100} => CellTexel(r)[4] = 0

\* C18 witness: the traffic channel shows a cell of value 100, and (in another state) one
\* of a value outside the palette
C18_Witness ==
    /\ "/traffic_map" \in DOMAIN gridRenderables
    /\ CellByte(gridRenderables["/traffic_map"]) = 100
    /\ gridRenderables["/traffic_map"].texture.needsUpdate

\* C19: on every topic other than /traffic_map and /one_way_map the cell values 0, 224, 192,
\* 96 and 95 give (255, 255, 255, 128), (0, 0, 0, 128), (255, 168, 168, 128),
\* (128, 128, 128, 128) and (255, 165, 0, 128), and every other byte value gives a texel
\* with alpha 0, whatever the topic is.
C19_DefaultPalette ==
    \A t \in DOMAIN gridRenderables \ {"/traffic_map", "/one_way_map"} :
        LET r == gridRenderables[t]
            v == CellByte(r)
        IN  /\ v = 0 => CellTexel(r) = <<255, 255, 255, 128>>
            /\ v = 224 => CellTexel(r) = <<0, 0, 0, 128>>
            /\ v = 192 => CellTexel(r) = <<255, 168, 168, 128>>
            /\ v = 96 => CellTexel(r) = <<128, 128, 128, 128>>
            /\ v = 95 => CellTexel(r) = <<255, 165, 0, 128>>
            /\ v \notin {0, 224, 192, 96, 95} => CellTexel(r)[4] = 0

\* C19 witness: a channel with the default palette shows a cell of value 224
C19_Witness ==
    /\ "/costmap" \in DOMAIN gridRenderables
    /\ CellByte(gridRenderables["/costmap"]) = 224
    /\ CellTexel(gridRenderables["/costmap"]) = <<0, 0, 0, 128>>
    /\ gridRenderables["/costmap"].texture.needsUpdate

(***************************************************************************)
(* Properties of the texture of a grid entry                               *)
(***************************************************************************)
\* C20: when an existing entry takes an accepted update (a message or a settings action that
\* passes the dimension check): if the width or the height of the grid differs from the
\* texture's, the entry's texture and its material's map become a new texture object of the
\* grid's dimensions and dispose() is called on the old texture; if both are equal, the
\* texture object and the size of its buffer are kept, the buffer holds the texels of the
\* grid, the texture is marked dirty and dispose() is called on no texture.
C20_TextureRegeneratedOrReused ==
    [][ \A t \in DOMAIN gridRenderables :
          ( /\ last'.op \in {"grid", "gridSettings"}
            /\ last'.topic = t
            /\ ~last'.thrown
            /\ t \in DOMAIN gridRenderables'
            /\ LET g == gridRenderables'[t].occupancyGrid
               IN  Len(g.data) = g.info.width * g.info.height ) =>
            LET old == gridRenderables[t].texture
                r == gridRenderables'[t]
                g == r.occupancyGrid
                new == r.texture
                Unsigned(d) == IF d < 0 THEN d + 256 ELSE d
            IN  /\ new.width = g.info.width
                /\ new.height = g.info.height
                /\ new.needsUpdate
                /\ new.id \notin r.disposedTextures
                /\ r.materialMap = new.id
                /\ \A k \in 1..Len(g.data) :
                      SubSeq(new.data, 4 * k - 3, 4 * k) = Texel(t, Unsigned(g.data[k]))
                /\ IF g.info.width # old.width \/ g.info.height # old.height
                   THEN /\ new.id # old.id
                        /\ r.disposedByUpdate = {old.id}
                        /\ old.id \in r.disposedTextures
                   ELSE /\ new.id = old.id
                        /\ Len(new.data) = Len(old.data)
                        /\ r.disposedByUpdate = {} ]_vars

\* C20 witness: a second accepted grid of other dimensions has replaced the second texture
\* of an entry: dispose() was called on the second texture, the third one is the entry's
\* texture and its material's map, and the first one, disposed before, is still the map of
\* the picking material
C20_Witness ==
    \E t \in DOMAIN gridRenderables :
        LET r == gridRenderables[t]
            g == r.occupancyGrid
        IN  /\ last.op = "grid" /\ last.topic = t /\ ~last.thrown
            /\ Len(g.data) = g.info.width * g.info.height
            /\ r.texture.id = 3
            /\ r.materialMap = 3
            /\ r.disposedByUpdate = {2}
            /\ r.disposedTextures = {1, 2}
            /\ r.pickingMap = 1
            /\ r.texture.needsUpdate
            /\ r.texture.height = MaxHeight

(***************************************************************************)
(* The image channel: one grid channel that receives raw payloads, image   *)
(* payloads, and raw payloads that begin like the PNG signature            *)
(***************************************************************************)
\* <<width, height, data>>: images with as many pixels as cells and with one pixel less; an
\* image of one pixel whose payload is as long as the grid has cells; raw grids; raw grids
\* whose first one, three or four bytes are those of the signature; the bare signature;
\* grids without cells
PngPayloads ==
    { <<d[1], d[2], PngData(d[1] * d[2] - short, 2)>> :
         d \in {<<1, 1>>, <<2, 2>>}, short \in {0, 1} }
    \cup { <<3, 2, PngData(1, 2)>> }
    \cup { <<d[1], d[2], RawData(d[1] * d[2], v)>> : d \in {<<1, 1>>, <<2, 2>>}, v \in Variants }
    \cup { <<1, 1, <<-119>>>>, <<3, 1, <<-119, 80, 78>>>>, <<2, 2, <<-119, 80, 78, 0>>>>,
           <<2, 2, <<-119, 80, 78, 72>>>>, <<2, 2, <<0, 80, 78, 71>>>>,
           <<2, 2, png_signature>>, <<5, 1, <<-119, 80, 78, 71, 0>>>> }
    \cup { <<0, 0, <<>>>>, <<0, 2, <<>>>>, <<2, 0, <<>>>> }

PngEvents == { Event(GridMessage(x[1], x[2], x[3], 1), 1) : x \in PngPayloads }

PngMessage ==
    \E ev \in PngEvents : handleOccupancyGrid("grid", "/map", ev)

SpecPng == Init /\ [][PngMessage]_vars

\* C21: a grid message is handled as an image exactly if its first four bytes are -119, 80,
\* 78, 71 (0x89 'P' 'N' 'G' as signed bytes).  If they are, the decoder runs: when it fails
\* the handler fails, and otherwise the stored data buffer is the decoded pixels as signed
\* bytes and the dimension check (diagnostic or accepted texture) is applied to the pixels.
\* If they are not, the handler does not fail, the stored data buffer is the payload as it
\* came and the dimension check is applied to it.
C21_PngExactlyOnSignature ==
    [][ \A ev \in PngEvents :
          handleOccupancyGrid("grid", "/map", ev) =>
            LET in == ev.message.data
                size == ev.message.info.width * ev.message.info.height
                isImage == Len(in) >= 4 /\ in[1] = -119 /\ in[2] = 80 /\ in[3] = 78 /\ in[4] = 71
                r == gridRenderables'["/map"]
                out == r.occupancyGrid.data
                pixels == [i \in 1..(Len(in) - 5) |-> in[i + 5]]
                Checked(data) ==
                    /\ out = data
                    /\ Len(data) # size =>
                          errors'["/map"][INVALID_OCCUPANCY_GRID].args[1] = Len(data)
                    /\ Len(data) = size =>
                          /\ errors' = errors
                          /\ r.texture.needsUpdate
                          /\ Len(r.texture.data) = 4 * size
            IN  IF ~isImage THEN ~last'.thrown /\ Checked(in)
                ELSE IF last'.thrown THEN out = in
                ELSE Checked(pixels) ]_vars

\* C21 witness: an image payload of six bytes on a grid of six cells was decoded to its one
\* pixel and then rejected by the dimension check
C21_Witness ==
    /\ last.op = "grid" /\ ~last.thrown
    /\ "/map" \in DOMAIN gridRenderables
    /\ LET g == gridRenderables["/map"].occupancyGrid
       IN  /\ g.info.width * g.info.height = 6
           /\ g.data = <<-32>>
    /\ errors["/map"][INVALID_OCCUPANCY_GRID].args = <<1, 3, 2>>

(***************************************************************************)
(* Three channels (pose array, path, grid) whose settings are edited       *)
(* before and after their first message                                    *)
(***************************************************************************)
SettingsMessage ==
    \/ handlePoseArray("/poses", Event(PoseArrayMessage(2, 1), 1))
    \/ handleNavPath("/path", Event(NavPathMessage(2, 1, 1), 1))
    \/ handleOccupancyGrid("grid", "/map", Event(GridMessage(1, 1, RawData(1, 1), 1), 1))

SettingsEdit ==
    \/ \E setting \in {<<"type", "arrow">>, <<"trolley", TRUE>>} :
          poseHandleSettingsAction("update", "/poses", setting[1], setting[2])
    \/ \E setting \in {<<"type", "axis">>, <<"gradient", OTHER_GRADIENT_STR>>} :
          poseHandleSettingsAction("update", "/path", setting[1], setting[2])
    \/ gridHandleSettingsAction("update", "/map", "frameLocked", TRUE)

NextSettings == SettingsMessage \/ SettingsEdit

SpecSettings == Init /\ [][NextSettings]_vars

(***************************************************************************)
(* The path channel: paths of every length up to MaxPoses whose last pose  *)
(* is stamped with the frame of the path or with another frame             *)
(***************************************************************************)
PathEvents ==
    { Event(NavPathMessage(n, v, w), v) : n \in 0..MaxPoses, v \in Variants, w \in Variants }

PathMessage ==
    \E ev \in PathEvents : handleNavPath("/path", ev)

PathSettings ==
    \E type \in {"axis", "arrow", "line"} :
        poseHandleSettingsAction("update", "/path", "type", type)

NextPath == PathMessage \/ PathSettings

SpecPath == Init /\ [][NextPath]_vars

(***************************************************************************)
(* Dispatch by schema: the renderer hands a message to the handler that    *)
(* was subscribed for the schema of its topic.  The same payloads arrive   *)
(* on a vendor costmap topic and on a standard occupancy-grid topic.       *)
(***************************************************************************)
MIR_COST_MAP_DATATYPE == "mirMsgs/CostmapData"
OCCUPANCY_GRID_DATATYPES == {"nav_msgs/OccupancyGrid", "nav_msgs/msg/OccupancyGrid"}

\* the topic the messages of a schema arrive on
TopicOfSchema(schemaName) ==
    IF schemaName = MIR_COST_MAP_DATATYPE THEN "/costmap" ELSE "/map"

\* the subscriptions of the constructor, as the renderer serves them
dispatchGridMessage(schemaName, messageEvent) ==
    IF schemaName = MIR_COST_MAP_DATATYPE
    THEN handleCostmapData(TopicOfSchema(schemaName), messageEvent)
    ELSE handleOccupancyGrid("grid", TopicOfSchema(schemaName), messageEvent)

\* a payload that reads as a vendor costmap and as a standard grid alike
HybridMessage(width, height, data, v) ==
    Spread(GridMessage(width, height, data, v), CostmapMessage(width, height, data, TRUE, v))

DispatchInputs ==
    { HybridMessage(x[1], x[2], x[3], 1) :
        x \in { <<1, 1, <<-28>>>>, <<2, 1, <<-28, 27>>>>, <<2, 2, <<27>>>> } }

DispatchMessage ==
    \E schemaName \in {MIR_COST_MAP_DATATYPE} \cup OCCUPANCY_GRID_DATATYPES, m \in DispatchInputs :
        dispatchGridMessage(schemaName, Event(m, m.header.stamp.sec))

DispatchSettings ==
    \E topic \in {"/costmap", "/map"} :
        gridHandleSettingsAction("update", topic, "frameLocked", TRUE)

NextDispatch == DispatchMessage \/ DispatchSettings

SpecDispatch == Init /\ [][NextDispatch]_vars

(***************************************************************************)
(* One channel of any adapter: the initial state picks the topic, which    *)
(* then receives messages of its schema and settings actions               *)
(***************************************************************************)
AdapterTopics == {"/map", "/costmap", "/poses", "/poses_in_frame", "/path", "/mir_path"}

\* the handler subscribed for the schema of a topic
deliver(topic, messageEvent) ==
    CASE topic = "/map" -> handleOccupancyGrid("grid", topic, messageEvent)
      [] topic = "/costmap" -> handleCostmapData(topic, messageEvent)
      [] topic = "/poses" -> handlePoseArray(topic, messageEvent)
      [] topic = "/poses_in_frame" -> handlePosesInFrame(topic, messageEvent)
      [] topic = "/path" -> handleNavPath(topic, messageEvent)
      [] OTHER -> handleMirRobotStatePath(topic, messageEvent)

\* the messages a topic receives
AdapterMessages(topic) ==
    CASE topic = "/map" ->
            { GridMessage(1, 1, RawData(1, v), v) : v \in Variants }
            \cup { GridMessage(2, 1, RawData(1, 1), 1), GridMessage(1, 1, PngData(1, 2), 2),
                   GridMessage(1, 1, png_signature, 1),
                   GridMessage(3, 2, png_signature \o <<6>> \o png_signature \o <<1, 0>>, 1) }
      [] topic = "/costmap" ->
            { CostmapMessage(1, 1, <<-28>>, TRUE, v) : v \in Variants }
            \cup { CostmapMessage(1, 1, <<>>, FALSE, 2) }
      [] topic = "/poses" -> { PoseArrayMessage(n, v) : n \in {0, 2}, v \in Variants }
      [] topic = "/poses_in_frame" -> { PosesInFrameMessage(n, v) : n \in {1, 2}, v \in Variants }
      [] topic = "/path" -> { NavPathMessage(2, v, w) : v \in Variants, w \in Variants }
      [] OTHER -> { MirPathMessage(n, v, t) : n \in {1, 2}, v \in Variants, t \in BOOLEAN }

\* a message stamped 1 s is received at 2 s and a message stamped 2 s at 1 s, which keeps
\* the nanosecond times below 2^31
AdapterEvents(topic) ==
    { Event(m, IF "timestamp" \in DOMAIN m THEN 3 - m.timestamp.sec ELSE 3 - m.header.stamp.sec) :
        m \in AdapterMessages(topic) }

InitAdapter ==
    \E topic \in AdapterTopics :
        /\ config = [t \in {topic} |-> EmptyMap]
        /\ errors = [t \in {topic} |-> EmptyMap]
        /\ gridRenderables = EmptyMap
        /\ poseRenderables = EmptyMap
        /\ last = Called("init", "", FALSE, EmptyMap, {})
        /\ bridge = NoBridge
        /\ panel = NoPanel

AdapterMessage ==
    \E topic \in DOMAIN config :
        \E ev \in AdapterEvents(topic) : deliver(topic, ev)

AdapterSettings ==
    \E topic \in DOMAIN config :
        IF topic \in {"/map", "/costmap"}
        THEN gridHandleSettingsAction("update", topic, "frameLocked", TRUE)
        ELSE \E type \in {"arrow", "line"} :
                poseHandleSettingsAction("update", topic, "type", type)

NextAdapter == AdapterMessage \/ AdapterSettings

SpecAdapter == InitAdapter /\ [][NextAdapter]_vars

(***************************************************************************)
(* One channel of any adapter over its life: messages, settings actions    *)
(* and the removal of every entry, after which both may arrive again       *)
(***************************************************************************)
NextLifecycle == AdapterMessage \/ AdapterSettings \/ GridRemoveAll \/ PoseRemoveAll

SpecLifecycle == InitAdapter /\ [][NextLifecycle]_vars

(***************************************************************************)
(* A robot state path channel with the trolley switched on and off:        *)
(* paths of up to two points, with and without the trolley flag            *)
(***************************************************************************)
TrolleyEvents ==
    { Event(MirPathMessage(n, 1, t), 1) : n \in 0..2, t \in BOOLEAN }

TrolleyMessage ==
    \E ev \in TrolleyEvents : handleMirRobotStatePath("/mir_path", ev)

TrolleySettings ==
    \E value \in BOOLEAN : poseHandleSettingsAction("update", "/mir_path", "trolley", value)

NextTrolley == TrolleyMessage \/ TrolleySettings

SpecTrolley == Init /\ [][NextTrolley]_vars

(***************************************************************************)
(* A grid channel whose stored grid is re-applied by settings actions.     *)
(* The grids are raw, rejected, images, an image cut off after its         *)
(* signature, and images whose pixels start with the bytes of the          *)
(* signature (the cell values 137, 80, 78, 71): one whose pixels do not    *)
(* decode as an image, and one whose pixels do.                            *)
(***************************************************************************)
ReapplyEvents ==
    { Event(m, 1) :
        m \in { GridMessage(2, 1, RawData(2, 1), 1),
                GridMessage(2, 1, RawData(1, 1), 1),
                GridMessage(2, 1, PngData(2, 2), 2),
                GridMessage(2, 1, PngData(1, 2), 2),
                GridMessage(1, 1, png_signature, 1),
                GridMessage(2, 2, png_signature \o <<4>> \o png_signature, 1),
                GridMessage(3, 2, png_signature \o <<6>> \o png_signature \o <<1, 0>>, 1) } }

ReapplyMessage ==
    \E ev \in ReapplyEvents : handleOccupancyGrid("grid", "/map", ev)

NextReapply == ReapplyMessage \/ GridSettings

SpecReapply == Init /\ [][NextReapply]_vars

(***************************************************************************)
(* Properties of the colors, settings and diagnostics of pose entries      *)
(***************************************************************************)
\* a color computed as fractions is a number on every channel and equals the color c
IsColor(q, c) ==
    \A ch \in {"r", "g", "b", "a"} : q[ch].d # 0 /\ q[ch].n = c[ch] * q[ch].d

\* C22 (as claimed): an entry that shows a pose array of exactly one pose has, in arrow mode,
\* a first arrow of exactly the start color of the gradient and, in line mode, a line whose
\* single vertex has exactly the start color; no channel is undefined
C22_SinglePoseStartColor ==
    \A t \in DOMAIN poseRenderables :
        LET r == poseRenderables[t]
            colorStart == stringToRgba(r.settings.gradient[1])
        IN  PoseCount(r) = 1 =>
              /\ r.settings.type = "arrow" => IsColor(r.arrows[1].marker.color, colorStart)
              /\ r.settings.type = "line" =>
                    \A i \in DOMAIN r.lineStrip :
                        IsColor(r.lineStrip[i].marker.colors[1], colorStart)

\* C23: the settings of an entry created by a message are, field by field, the user override
\* of the channel if it has the field, else the default display type of the channel for the
\* field type (line for a path, axis otherwise), else the hard-coded default (axis, axis
\* scale 1, arrow scale (1000, 150, 150), line width 200, the default gradient, not visible, no
\* trolley; for a grid: not visible, not frame locked); the snapshot has no other fields
\* than these and those of the override.
C23_SettingsLayered ==
    [][ /\ \A t \in DOMAIN poseRenderables' \ DOMAIN poseRenderables :
              LET user == config[t]
                  settings == poseRenderables'[t].settings
                  hard == [ visible |-> FALSE, type |-> "axis", axisScale |-> 1,
                            arrowScale |-> <<1000, 150, 150>>, lineWidth |-> 200,
                            gradient |-> <<[css |-> <<124, 107, 255, 100>>],
                                           [css |-> <<124, 107, 255, 50>>]>>,
                            trolley |-> FALSE ]
              IN  /\ DOMAIN settings = DOMAIN hard \cup DOMAIN user
                  /\ \A f \in DOMAIN settings :
                        settings[f] = IF f \in DOMAIN user THEN user[f]
                                      ELSE IF f = "type" /\ t = "/path" THEN "line"
                                      ELSE hard[f]
        /\ \A t \in DOMAIN gridRenderables' \ DOMAIN gridRenderables :
              LET user == config[t]
                  settings == gridRenderables'[t].settings
                  hard == [visible |-> FALSE, frameLocked |-> FALSE]
              IN  /\ DOMAIN settings = DOMAIN hard \cup DOMAIN user
                  /\ \A f \in DOMAIN settings :
                        settings[f] = IF f \in DOMAIN user THEN user[f] ELSE hard[f] ]_vars

\* C23 witness: a path entry created while the override held only a gradient: line mode from
\* the default display type, the gradient of the override, the other fields hard-coded; and
\* a pose-array entry created under an override of the type
C23_Witness ==
    /\ {"/path", "/poses"} \subseteq DOMAIN poseRenderables
    /\ last.op = "navPath"
    /\ DOMAIN config["/path"] = {"gradient"}
    /\ poseRenderables["/path"].settings.type = "line"
    /\ poseRenderables["/path"].settings.gradient = OTHER_GRADIENT_STR
    /\ poseRenderables["/path"].settings.lineWidth = 200
    /\ poseRenderables["/poses"].settings.type = "arrow"

\* C24: a path in which the frame id of some pose differs from the frame id of the path
\* header leaves a MISMATCHED_FRAME_ID diagnostic on the channel, and every path, with or
\* without such a pose, is processed: the channel has an entry (the one it had, if it had
\* one) that holds all poses of the path in order, shown as one visible axis or arrow per
\* pose at the position of the pose, or as a line with one vertex per pose.
C24_MismatchedFrameNonFatal ==
    [][ \A ev \in PathEvents :
          handleNavPath("/path", ev) =>
            LET path == ev.message
                n == Len(path.poses)
                differs == \E i \in 1..n : path.poses[i].header.frame_id # path.header.frame_id
            IN  /\ differs => MISMATCHED_FRAME_ID \in DOMAIN errors'["/path"]
                /\ "/path" \in DOMAIN poseRenderables'
                /\ "/path" \in DOMAIN poseRenderables =>
                      poseRenderables'["/path"].id = poseRenderables["/path"].id
                /\ LET r == poseRenderables'["/path"]
                       pool == ActivePool(r)
                   IN  /\ Len(r.poseArrayMessage.poses) = n
                       /\ \A i \in 1..n : r.poseArrayMessage.poses[i] = path.poses[i].pose
                       /\ r.settings.type \in {"axis", "arrow"} =>
                             /\ Visible(pool) = 1..n
                             /\ \A i \in 1..n : pool[i].position = path.poses[i].pose.position
                       /\ r.settings.type = "line" =>
                             /\ Len(r.lineStrip) = 1
                             /\ r.lineStrip[1].marker.points =
                                   [i \in 1..n |-> path.poses[i].pose.position] ]_vars

\* C24 witness: an entry in line mode has taken a path of MaxPoses poses whose last pose
\* names another frame, and the channel holds the diagnostic
C24_Witness ==
    /\ last.op = "navPath"
    /\ "/path" \in DOMAIN poseRenderables
    /\ MISMATCHED_FRAME_ID \in DOMAIN errors["/path"]
    /\ errors["/path"][MISMATCHED_FRAME_ID].args = <<"map", "odom">>
    /\ LET r == poseRenderables["/path"]
       IN  /\ r.settings.type = "line"
           /\ Len(r.originalMessage.poses) = MaxPoses
           /\ r.lineStrip # <<>>
           /\ r.originalMessage.poses[MaxPoses].header.frame_id = "/odom"
           /\ Len(r.lineStrip[1].marker.points) = MaxPoses
           /\ r.messageTime = toNanoSec([sec |-> 1, nsec |-> 5])

\* the grid half of C25: a grid message with width * height = 0 and no data attaches no
\* diagnostic and leaves a texture without texels
EmptyGridAccepted ==
    [][ \A t \in DOMAIN gridRenderables' :
          LET r == gridRenderables'[t]
              g == r.occupancyGrid
          IN  ( /\ last'.op = "grid" /\ last'.topic = t
                /\ g.info.width * g.info.height = 0
                /\ g.data = <<>> ) =>
                /\ ~last'.thrown
                /\ errors' = errors
                /\ r.texture.width * r.texture.height = 0
                /\ r.texture.data = <<>> ]_vars

\* the pose half of C25 for the pool of the display type: after a message without poses
\* no axis and no arrow is visible
EmptyPoseArrayHidesActivePool ==
    [][ \A t \in DOMAIN poseRenderables' :
          (last'.op = "poseArray" /\ last'.topic = t /\ PoseCount(poseRenderables'[t]) = 0) =>
            /\ errors' = errors
            /\ Visible(poseRenderables'[t].axes) = {}
            /\ Visible(poseRenderables'[t].arrows) = {} ]_vars

\* C25 (as claimed): a grid with width * height = 0 and no data, and a pose array without
\* poses, are taken as empty: the message attaches no diagnostic, the texture of the grid
\* has no texels, and no child of the axis pool, the arrow pool or the trolley pool of the
\* pose entry is visible
C25_EmptyAccepted ==
    [][ /\ \A t \in DOMAIN gridRenderables' :
              LET r == gridRenderables'[t]
                  g == r.occupancyGrid
              IN  ( /\ last'.op = "grid" /\ last'.topic = t
                    /\ g.info.width * g.info.height = 0
                    /\ g.data = <<>> ) =>
                    /\ ~last'.thrown
                    /\ errors' = errors
                    /\ r.texture.data = <<>>
        /\ \A t \in DOMAIN poseRenderables' :
              LET r == poseRenderables'[t]
              IN  (last'.op = "poseArray" /\ last'.topic = t /\ PoseCount(r) = 0) =>
                    /\ errors' = errors
                    /\ Visible(r.axes) = {}
                    /\ Visible(r.arrows) = {}
                    /\ Visible(r.trolley_arrows) = {} ]_vars

(***************************************************************************)
(* Properties of a grid channel before its first accepted grid             *)
(***************************************************************************)
\* C26: a grid entry on which no update was accepted so far renders nothing.  The texture of
\* an entry is marked as updated by, and only by, an accepted update (a message or a
\* re-applied stored grid that passes the dimension check); as long as it is not marked,
\* through every rejected or failed message and every settings action, beginning with the
\* message that created the entry, every texel of the texture has alpha 0.
C26_UnacceptedRendersNothing ==
    [][ \A t \in DOMAIN gridRenderables' :
          LET r == gridRenderables'[t]
              g == r.occupancyGrid
              accepts == /\ last'.op \in {"grid", "gridSettings"}
                         /\ last'.topic = t
                         /\ ~last'.thrown
                         /\ Len(g.data) = g.info.width * g.info.height
              unaccepted == \/ t \notin DOMAIN gridRenderables
                            \/ ~gridRenderables[t].texture.needsUpdate
          IN  /\ accepts => r.texture.needsUpdate
              /\ (unaccepted /\ ~accepts) =>
                    /\ ~r.texture.needsUpdate
                    /\ r.texture.data # <<>>
                    /\ \A k \in 1..(Len(r.texture.data) \div 4) : r.texture.data[4 * k] = 0 ]_vars

\* C26 witness: a settings action has re-applied a rejected grid to an entry that was
\* created by a message of other dimensions and never took an accepted grid
C26_Witness ==
    \E t \in DOMAIN gridRenderables :
        LET r == gridRenderables[t]
            g == r.occupancyGrid
        IN  /\ last.op = "gridSettings" /\ last.topic = t
            /\ INVALID_OCCUPANCY_GRID \in DOMAIN errors[t]
            /\ ~r.texture.needsUpdate
            /\ Len(g.data) # g.info.width * g.info.height
            /\ g.info.width # r.texture.width
            /\ Len(r.texture.data) = 4 * MaxWidth

(***************************************************************************)
(* Properties of the dispatch to the costmap adapter                       *)
(***************************************************************************)
\* C27: a message of a standard occupancy-grid schema is handled by the grid handler and its
\* data is stored as it came, also when its content reads as a vendor costmap; a message of
\* the vendor costmap schema is handled by the costmap handler and the stored data is the
\* result of one pass of the adapter; and a settings action re-applies the stored grid
\* without changing its data.
C27_AdapterOncePerCostmap ==
    [][ /\ \A m \in DispatchInputs :
              LET ev == Event(m, m.header.stamp.sec)
              IN  /\ \A schemaName \in OCCUPANCY_GRID_DATATYPES :
                        dispatchGridMessage(schemaName, ev) =>
                          LET g == gridRenderables'[TopicOfSchema(schemaName)].occupancyGrid
                          IN  /\ last'.op = "grid"
                              /\ g.data = m.data
                              /\ g.info.width = m.info.width
                  /\ dispatchGridMessage(MIR_COST_MAP_DATATYPE, ev) =>
                        /\ last'.op = "costmap"
                        /\ gridRenderables'["/costmap"].occupancyGrid.data
                              = MirToRos(ev).message.data
        /\ last'.op = "gridSettings" =>
              \A t \in DOMAIN gridRenderables :
                  gridRenderables'[t].occupancyGrid.data = gridRenderables[t].occupancyGrid.data
      ]_vars

\* C27 witness: the payload <<0b11100100>> is stored as it came on the grid topic and as the
\* one cell 3 on the costmap topic (a second pass of the adapter would give 0), and a
\* settings action has re-applied it there
C27_Witness ==
    /\ {"/map", "/costmap"} \subseteq DOMAIN gridRenderables
    /\ gridRenderables["/map"].occupancyGrid.data = <<-28>>
    /\ gridRenderables["/costmap"].occupancyGrid.data = <<3>>
    /\ last.op = "gridSettings" /\ last.topic = "/costmap"

(***************************************************************************)
(* Properties of the line of a pose entry                                  *)
(***************************************************************************)
\* C28: after every message and every settings action that leaves an entry in line mode the
\* entry holds exactly one line object, undisposed and attached as its only line child; if
\* the entry was in line mode before the step it is the same object and no line object was
\* released; and the points of the line are the positions of all poses of the stored pose
\* array in order, with as many colors as points.
C28_OneLinePerEntry ==
    [][ \A t \in DOMAIN poseRenderables' :
          ( /\ last'.op \in {"poseArray", "poseSettings"}
            /\ last'.topic = t
            /\ poseRenderables'[t].settings.type = "line" ) =>
            LET r == poseRenderables'[t]
                poses == r.poseArrayMessage.poses
            IN  /\ Len(r.lineStrip) = 1
                /\ ~r.lineStrip[1].disposed
                /\ {c \in r.children : c[1] = "line"} = {<<"line", r.lineStrip[1].id>>}
                /\ r.lineStrip[1].marker.points = [i \in DOMAIN poses |-> poses[i].position]
                /\ Len(r.lineStrip[1].marker.colors) = Len(poses)
                /\ (t \in DOMAIN poseRenderables /\ poseRenderables[t].settings.type = "line") =>
                      /\ Len(poseRenderables[t].lineStrip) = 1
                      /\ r.lineStrip[1].id = poseRenderables[t].lineStrip[1].id
                      /\ \A g \in last'.released : g.kind # "line" ]_vars

\* C28 witness: a message of MaxPoses poses has updated the line of an entry whose channel
\* was put in line mode by a settings action
C28_Witness ==
    \E t \in DOMAIN poseRenderables :
        LET r == poseRenderables[t]
        IN  /\ last.op = "poseArray" /\ last.topic = t
            /\ r.settings.type = "line"
            /\ config[t].type = "line"
            /\ r.lineStrip # <<>>
            /\ Len(r.lineStrip[1].marker.points) = MaxPoses
            /\ r.lineStrip[1].marker.points[MaxPoses] = PoseAt(1, MaxPoses).position

(***************************************************************************)
(* Properties of the trolley pool                                          *)
(***************************************************************************)
\* a message on topic t has been handled for an entry with the trolley attachment on, and
\* the trolley arrow at every index below min(pool length, pose count) is the object it
\* was: the same id, and not an object the call released and constructed again
TrolleyChildrenKept(t) ==
    LET before == poseRenderables[t]
        after == poseRenderables'[t]
    IN  \A i \in 1..Min(Len(before.trolley_arrows), PoseCount(after)) :
            /\ i \in DOMAIN after.trolley_arrows
            /\ after.trolley_arrows[i].id = before.trolley_arrows[i].id
            /\ \A g \in last'.released :
                  ~(g.kind = "trolley" /\ g.id = before.trolley_arrows[i].id)

\* the trolley of an entry in axis or arrow mode keeps its arrows across messages
TrolleyKeptInAxisAndArrowMode ==
    [][ \A t \in DOMAIN poseRenderables :
          ( /\ last'.op = "poseArray" /\ last'.topic = t
            /\ poseRenderables[t].settings.trolley
            /\ poseRenderables[t].settings.type \in {"axis", "arrow"}
            /\ poseRenderables'[t].settings = poseRenderables[t].settings ) =>
            TrolleyChildrenKept(t) ]_vars

\* C29 (as claimed): with the trolley attachment on and settings equal to the previous ones,
\* a message leaves the trolley arrow at every index below min(pool length, pose count) the
\* same object, in axis, arrow and line mode and for every pose count
C29_TrolleyNeverRecreated ==
    [][ \A t \in DOMAIN poseRenderables :
          ( /\ last'.op = "poseArray" /\ last'.topic = t
            /\ poseRenderables[t].settings.trolley
            /\ poseRenderables'[t].settings = poseRenderables[t].settings ) =>
            TrolleyChildrenKept(t) ]_vars

(***************************************************************************)
(* Properties of the times, the frame and the payload of an entry          *)
(***************************************************************************)
\* the stamp, the frame id and the pose positions a message carries, read from its fields
StampOf(m) == IF "timestamp" \in DOMAIN m THEN m.timestamp ELSE m.header.stamp

FrameIdOf(m) == IF "frame_id" \in DOMAIN m THEN m.frame_id ELSE m.header.frame_id

PositionsOf(m) ==
    IF "path" \in DOMAIN m
    THEN [i \in DOMAIN m.path |-> [x |-> m.path[i].pose_x, y |-> m.path[i].pose_y,
                                   z |-> m.path[i].velocity_x]]
    ELSE [i \in DOMAIN m.poses |->
            IF "pose" \in DOMAIN m.poses[i] THEN m.poses[i].pose.position
                                            ELSE m.poses[i].position]

\* the data of a grid message as the handler leaves them: the pixels of an image, the data
\* themselves otherwise
DataOf(m) ==
    IF HasPngSignature(m.data)
          /\ PngDecodable([i \in 1..Len(m.data) |-> ToUint8(m.data[i])])
    THEN decodePng(m).data
    ELSE m.data

\* the entry of channel t after the step has the times, the frame id and the payload of the
\* message of the event ev
EntryFollows(t, ev) ==
    /\ t \in (IF t \in {"/map", "/costmap"} THEN DOMAIN gridRenderables'
                                            ELSE DOMAIN poseRenderables')
    /\ LET m == ev.message
           r == IF t \in {"/map", "/costmap"} THEN gridRenderables'[t]
                                              ELSE poseRenderables'[t]
       IN  /\ r.receiveTime = ev.receiveTime.sec * 1000000000 + ev.receiveTime.nsec
           /\ r.messageTime = StampOf(m).sec * 1000000000 + StampOf(m).nsec
           /\ r.frameId = (IF FrameIdOf(m) = "/odom" THEN "odom" ELSE FrameIdOf(m))
           /\ t \notin {"/map", "/costmap"} =>
                 /\ r.originalMessage = m
                 /\ r.poseArrayMessage.header.stamp = StampOf(m)
                 /\ r.poseArrayMessage.header.frame_id = FrameIdOf(m)
                 /\ [i \in DOMAIN r.poseArrayMessage.poses |->
                        r.poseArrayMessage.poses[i].position] = PositionsOf(m)
           /\ t = "/map" =>
                 /\ r.occupancyGrid.header = m.header
                 /\ r.occupancyGrid.info = m.info
                 /\ r.pose = m.info.origin
                 /\ r.occupancyGrid.data = DataOf(m)
           /\ t = "/costmap" =>
                 /\ r.occupancyGrid.header = m.header
                 /\ r.occupancyGrid.info.width = m.width
                 /\ r.occupancyGrid.info.height = m.height
                 /\ r.pose.position = [x |-> m.offset_x, y |-> m.offset_y, z |-> 0]

\* the step leaves the receive time, the message time, the frame id and the stored payload
\* of the grid entry of channel t as they were
GridPayloadKept(t) ==
    /\ gridRenderables'[t].receiveTime = gridRenderables[t].receiveTime
    /\ gridRenderables'[t].messageTime = gridRenderables[t].messageTime
    /\ gridRenderables'[t].frameId = gridRenderables[t].frameId
    /\ gridRenderables'[t].occupancyGrid = gridRenderables[t].occupancyGrid

\* the same for the pose entry of channel t
PosePayloadKept(t) ==
    /\ poseRenderables'[t].receiveTime = poseRenderables[t].receiveTime
    /\ poseRenderables'[t].messageTime = poseRenderables[t].messageTime
    /\ poseRenderables'[t].frameId = poseRenderables[t].frameId
    /\ poseRenderables'[t].poseArrayMessage = poseRenderables[t].poseArrayMessage
    /\ poseRenderables'[t].originalMessage = poseRenderables[t].originalMessage

\* C30 (as claimed): after every message delivered to a channel, the channel has an entry
\* whose receive time and message time are those of the message in nanoseconds, whose frame
\* id is the frame id of the message without a leading slash, and whose stored payload is
\* that of the message (a pose entry: the message itself and one pose per pose of the
\* message at its position; a grid entry: the header, dimensions, origin and data of the
\* message, the data of an image being its pixels); a settings action leaves the receive
\* time, the message time, the frame id and the stored payload of every entry as they were
C30_EntryFollowsLastMessage ==
    [][ /\ \A t \in DOMAIN config :
              \A ev \in AdapterEvents(t) : deliver(t, ev) => EntryFollows(t, ev)
        /\ last'.op \in {"gridSettings", "poseSettings"} =>
              /\ \A t \in DOMAIN gridRenderables : GridPayloadKept(t)
              /\ \A t \in DOMAIN poseRenderables : PosePayloadKept(t)
      ]_vars

\* the same for the messages whose handler returns or fails after it has stored the
\* message (every message but a costmap without data), and for the settings actions on
\* entries whose stored data do not begin with the bytes of the signature
EntryFollowsLastMessageOffSignature ==
    [][ /\ \A t \in DOMAIN config :
              \A ev \in AdapterEvents(t) :
                  (deliver(t, ev) /\ ~(last'.op = "costmap" /\ last'.thrown)) =>
                      EntryFollows(t, ev)
        /\ last'.op \in {"gridSettings", "poseSettings"} =>
              /\ \A t \in DOMAIN gridRenderables :
                    ~HasPngSignature(gridRenderables[t].occupancyGrid.data) =>
                        GridPayloadKept(t)
              /\ \A t \in DOMAIN poseRenderables : PosePayloadKept(t)
      ]_vars

(***************************************************************************)
(* Properties of the scale, the materials and the diagnostic of a grid     *)
(***************************************************************************)
\* the scale of the entry of topic t before the step; a first message starts from the
\* scale of a new object
ScaleBefore(t) == IF t \in DOMAIN gridRenderables THEN gridRenderables[t].scale ELSE <<1, 1, 1>>

\* C31: after every accepted grid update (a message or a re-application by a settings
\* action) the scale of the entry is (resolution * width, resolution * height, 1) of that
\* grid; a rejected update leaves the scale as it was.
C31_ScaleFollowsAcceptedGrid ==
    [][ \A t \in DOMAIN gridRenderables' :
          (last'.op \in {"grid", "gridSettings"} /\ last'.topic = t /\ ~last'.thrown) =>
            LET g == gridRenderables'[t].occupancyGrid
            IN  IF Len(g.data) = g.info.width * g.info.height
                THEN gridRenderables'[t].scale =
                        <<g.info.resolution * g.info.width, g.info.resolution * g.info.height, 1>>
                ELSE gridRenderables'[t].scale = ScaleBefore(t) ]_vars

\* C31 witness: an entry scaled by an accepted grid of 2 x 1 cells at resolution 2 has
\* since taken a rejected grid at resolution 1 and kept its scale
C31_Witness ==
    \E t \in DOMAIN gridRenderables :
        /\ last.op = "grid" /\ last.topic = t /\ ~last.thrown
        /\ gridRenderables[t].occupancyGrid.info.resolution = 1
        /\ Len(gridRenderables[t].occupancyGrid.data) #
              gridRenderables[t].occupancyGrid.info.width *
              gridRenderables[t].occupancyGrid.info.height
        /\ gridRenderables[t].scale = <<4, 2, 1>>

(***************************************************************************)
(* Properties of the gradient, the settings and the trolley of pose entries *)
(***************************************************************************)
\* the color q is start + (end - start) * i / (count - 1) on every channel, held over the
\* denominator count - 1
IsInterpolated(q, start, end, i, count) ==
    \A ch \in {"r", "g", "b", "a"} :
        /\ q[ch].d = count - 1
        /\ q[ch].n = start[ch] * (count - 1) + (end[ch] - start[ch]) * i

\* C32: in an entry that shows a pose array of two or more poses in arrow or line mode, the
\* color of arrow or vertex i (counted from 0) is interpolated at i / (count - 1); the first
\* has exactly the start color of the gradient of the entry and the last exactly its end
\* color.
C32_GradientEndpointsExact ==
    \A t \in DOMAIN poseRenderables :
        LET r == poseRenderables[t]
            count == Len(r.poseArrayMessage.poses)
            start == stringToRgba(r.settings.gradient[1])
            end == stringToRgba(r.settings.gradient[2])
            colors == IF r.settings.type = "arrow"
                      THEN [i \in 1..count |-> r.arrows[i].marker.color]
                      ELSE r.lineStrip[1].marker.colors
        IN  (count >= 2 /\ r.settings.type \in {"arrow", "line"}) =>
              /\ Len(colors) = count
              /\ \A i \in 1..count : IsInterpolated(colors[i], start, end, i - 1, count)
              /\ IsColor(colors[1], start)
              /\ IsColor(colors[count], end)

\* C32 witness: a line of MaxPoses vertices drawn with a gradient other than the default
\* one, whose two colors differ
C32_Witness ==
    \E t \in DOMAIN poseRenderables :
        LET r == poseRenderables[t]
        IN  /\ r.settings.type = "line"
            /\ Len(r.poseArrayMessage.poses) = MaxPoses
            /\ r.settings.gradient = OTHER_GRADIENT_STR
            /\ r.lineStrip # <<>>
            /\ Len(r.lineStrip[1].marker.colors) = MaxPoses
            /\ r.lineStrip[1].marker.colors[1] # r.lineStrip[1].marker.colors[MaxPoses]

\* C33: a settings update that names a channel without an entry (one that has received no
\* message, or whose entry was removed) creates no entry in either registry, attaches no
\* diagnostic, and disposes and releases nothing; the stored configuration of the channel
\* changes in one field and that of every other channel not at all.
C33_SettingsWithoutEntry ==
    [][ \A t \in DOMAIN config :
          ( /\ last'.op \in {"gridSettings", "poseSettings"}
            /\ last'.topic = t
            /\ t \notin DOMAIN gridRenderables
            /\ t \notin DOMAIN poseRenderables ) =>
              /\ gridRenderables' = gridRenderables
              /\ poseRenderables' = poseRenderables
              /\ errors' = errors
              /\ ~last'.thrown
              /\ last'.disposed = EmptyMap
              /\ last'.released = {}
              /\ \A u \in DOMAIN config \ {t} : config'[u] = config[u]
              /\ \E field \in DOMAIN config'[t] :
                    \A f \in DOMAIN config[t] \ {field} :
                        f \in DOMAIN config'[t] /\ config'[t][f] = config[t][f] ]_vars

\* C33 witness: a settings update on the display type of a pose channel has just been
\* stored while the channel has no entry
C33_Witness ==
    /\ last.op = "poseSettings"
    /\ last.topic \in DOMAIN config
    /\ last.topic \notin DOMAIN poseRenderables
    /\ "type" \in DOMAIN config[last.topic]
    /\ config[last.topic].type = "line"
    /\ poseRenderables = EmptyMap

\* the snapshot the first message of channel t computes from the override user: the
\* override, over the default display type of the channel, over the hard-coded defaults
FirstMessageSnapshot(t, user) ==
    LET hard == [ visible |-> FALSE, type |-> "axis", axisScale |-> 1,
                  arrowScale |-> <<1000, 150, 150>>, lineWidth |-> 200,
                  gradient |-> <<[css |-> <<124, 107, 255, 100>>],
                                 [css |-> <<124, 107, 255, 50>>]>>,
                  trolley |-> FALSE ]
    IN  [f \in DOMAIN hard \cup DOMAIN user |->
            IF f \in DOMAIN user THEN user[f]
            ELSE IF f = "type" /\ t = "/path" THEN "line"
            ELSE hard[f]]

\* C34 (as claimed): the snapshot a settings update gives the entry of a pose channel is the
\* one the first message would compute from the override as it is after the update; on a
\* path channel whose override sets no display type, the update leaves the entry in line
\* mode with the line object it had, which is not released.
C34_SettingsSnapshotAsFirstMessage ==
    [][ \A t \in DOMAIN poseRenderables :
          (last'.op = "poseSettings" /\ last'.topic = t) =>
            /\ poseRenderables'[t].settings = FirstMessageSnapshot(t, config'[t])
            /\ (t = "/path" /\ "type" \notin DOMAIN config'[t]) =>
                  /\ poseRenderables'[t].settings.type = "line"
                  /\ Ids(poseRenderables'[t].lineStrip) = Ids(poseRenderables[t].lineStrip)
                  /\ \A o \in last'.released : o.kind # "line" ]_vars

\* on every channel but a path channel without an override of the display type, the
\* snapshot of a settings update is that of the first-message path
SettingsSnapshotOffPathDefault ==
    [][ \A t \in DOMAIN poseRenderables :
          ( /\ last'.op = "poseSettings" /\ last'.topic = t
            /\ (t # "/path" \/ "type" \in DOMAIN config'[t]) ) =>
            poseRenderables'[t].settings = FirstMessageSnapshot(t, config'[t]) ]_vars

\* C35 (as claimed): in every entry whose trolley is shown, the robot angles and the hook
\* angles each hold at least as many entries as the pose array has poses, and the heading
\* of the trolley arrow of every pose is a number
C35_TrolleyAnglesDefined ==
    \A t \in DOMAIN poseRenderables :
        LET r == poseRenderables[t]
            count == Len(r.poseArrayMessage.poses)
        IN  r.settings.trolley =>
              /\ Len(r.robot_angle) >= count
              /\ Len(r.trolley_numbers) >= count
              /\ Len(r.trolley_arrows) >= count
              /\ \A i \in 1..count :
                    /\ "nan" \in DOMAIN r.trolley_arrows[i].quaternion
                    /\ ~r.trolley_arrows[i].quaternion.nan

\* a path that carries the trolley flag records one robot angle and one hook angle per
\* point, and the trolley arrows it syncs have headings that are numbers
TrolleyAnglesDefinedByFlaggedPath ==
    [][ \A t \in DOMAIN poseRenderables' :
          LET r == poseRenderables'[t]
              count == Len(r.poseArrayMessage.poses)
          IN  ( /\ last'.op = "mirPath" /\ last'.topic = t
                /\ r.originalMessage.has_trolley
                /\ r.settings.trolley ) =>
                /\ Len(r.robot_angle) = count
                /\ Len(r.trolley_numbers) = count
                /\ \A i \in 1..count : ~r.trolley_arrows[i].quaternion.nan ]_vars

\* C36 (as claimed): in every entry the map of the display material and the map uniform of
\* the picking material both reference the current texture of the entry, and neither
\* references a texture that was disposed
C36_MaterialMapsCurrent ==
    \A t \in DOMAIN gridRenderables :
        LET r == gridRenderables[t]
        IN  /\ r.materialMap = r.texture.id
            /\ r.pickingMap = r.texture.id
            /\ r.materialMap \notin r.disposedTextures
            /\ r.pickingMap \notin r.disposedTextures

\* the map of the display material references the current texture, which is not disposed
DisplayMaterialMapCurrent ==
    \A t \in DOMAIN gridRenderables :
        LET r == gridRenderables[t]
        IN  r.materialMap = r.texture.id /\ r.materialMap \notin r.disposedTextures

\* C37 (as claimed): once a grid message on a channel is accepted, no INVALID_OCCUPANCY_GRID
\* diagnostic remains attached to the channel
C37_DiagnosticOnlyWhileRejected ==
    [][ \A t \in DOMAIN gridRenderables' :
          GridMessageAccepted(t) => "INVALID_OCCUPANCY_GRID" \notin DOMAIN errors'[t] ]_vars

\* an accepted grid message attaches no diagnostic of its own: the diagnostics of its
\* channel are those the channel had
AcceptedGridAddsNoDiagnostic ==
    [][ \A t \in DOMAIN gridRenderables' :
          GridMessageAccepted(t) => errors'[t] = errors[t] ]_vars

\* the step is a settings update that re-applies the stored grid of channel t right after
\* the message that stored it
ReappliedAfterMessage(t) ==
    /\ last.op = "grid" /\ last.topic = t
    /\ last'.op = "gridSettings" /\ last'.topic = t
    /\ t \in DOMAIN gridRenderables

\* the entry of t after the step is as the message left it: the same texture object with the
\* same dimensions and texels, the same scale, the same stored grid, the same diagnostics,
\* and the re-application failed exactly if the message did
SameOutcome(t) ==
    /\ gridRenderables'[t].texture = gridRenderables[t].texture
    /\ gridRenderables'[t].scale = gridRenderables[t].scale
    /\ gridRenderables'[t].occupancyGrid = gridRenderables[t].occupancyGrid
    /\ gridRenderables'[t].disposedTextures = gridRenderables[t].disposedTextures
    /\ errors'[t] = errors[t]
    /\ last'.thrown = last.thrown

\* C38 (as claimed): re-applying the stored grid of an entry, as a settings update does,
\* gives what the message that stored it gave: the texture, its dimensions and texels, the
\* scale and the outcome (accepted, rejected or failed) are the same, and the stored data
\* are not decoded again
C38_ReapplyIdempotent ==
    [][ \A t \in DOMAIN gridRenderables : ReappliedAfterMessage(t) => SameOutcome(t) ]_vars

\* the same, for stored grids whose data do not start with the bytes of the signature or
\* whose message failed in the decoder
ReapplyIdempotentOffSignature ==
    [][ \A t \in DOMAIN gridRenderables :
          ( /\ ReappliedAfterMessage(t)
            /\ LET data == gridRenderables[t].occupancyGrid.data
               IN  \/ Len(data) < 4
                   \/ SubSeq(data, 1, 4) # <<-119, 80, 78, 71>>
                   \/ last.thrown ) => SameOutcome(t) ]_vars

(***************************************************************************)
(* BinaryMessageWriter.  The native bridge is the environment: whether the *)
(* module loads, which field types the registry refuses, whether it        *)
(* validates, whether _malloc returns a buffer and whether                 *)
(* MessageWriter.write accepts a message are inputs of the calls.          *)
(* bridge.pending counts the calls of initialize that wait for the module  *)
(* factory, bridge.definitions holds the names in the current registry,    *)
(* bridge.heap the buffers that are allocated and not freed,               *)
(* bridge.writers the MessageWriter objects that are constructed and not   *)
(* deleted, bridge.returned what the last call returned or threw.          *)
(***************************************************************************)
\* the calls stop once this many writers are live
MaxLeaked == 3

\* at most this many calls of initialize wait for the module factory at a time
MaxPending == 2

\* what a call threw
Thrown(op, error) == [op |-> op, thrown |-> TRUE, error |-> error]

\* initialize() up to its await (line 69): the call returns a pending promise and assigns
\* nothing
initialize ==
    /\ bridge' = [bridge EXCEPT
                    !.pending = @ + 1,
                    !.returned = [op |-> "initialize", thrown |-> FALSE, pending |-> TRUE]]
    /\ UNCHANGED <<config, gridRenderables, poseRenderables, errors, last, panel>>

\* what the promise of getModuleFactory() settles with: an instance, a value that is not
\* one, or a rejection (a factory that throws rejects it as well)
FactoryAnswers == {"instance", "nothing", "rejected"}

\* initialize() from the answer of the module factory on (lines 69-72).  On a rejection the
\* await throws: nothing is assigned and the promise of the call is rejected.  Otherwise
\* the answer is assigned, if it is an instance a new registry is constructed, and the
\* promise of the call is fulfilled.
initializeResumes(answer) ==
    /\ bridge.pending > 0
    /\ bridge' =
          IF answer = "rejected"
          THEN [bridge EXCEPT
                  !.pending = @ - 1,
                  !.returned = Spread(Thrown("initialize", "module factory rejected"),
                                      [pending |-> FALSE])]
          ELSE [bridge EXCEPT
                  !.pending = @ - 1,
                  !.instance = (answer = "instance"),
                  !.registry = IF answer = "instance" THEN TRUE ELSE @,
                  !.definitions = IF answer = "instance" THEN {} ELSE @,
                  !.returned = [op |-> "initialize", thrown |-> FALSE, pending |-> FALSE]]
    /\ UNCHANGED <<config, gridRenderables, poseRenderables, errors, last, panel>>

\* _createDefinition(name, dataType) on an initialized registry: the definition is created,
\* then every field that is not a constant is added, with arrayLength ?? -1, until the
\* registry refuses one.  refused is the set of field types for which addField answers
\* false.  The result holds the fields that were added, whether the call threw and the
\* type of the field it threw for.
createDefinition(name, dataType, refused) ==
    LET fields == SelectSeq(dataType, LAMBDA f : ~f.isConstant)
        failing == {i \in DOMAIN fields : fields[i].type \in refused}
        stop == IF failing = {} THEN Len(fields) + 1
                ELSE CHOOSE i \in failing : \A j \in failing : i <= j
    IN  [ name |-> name,
          fields |-> [i \in 1..(stop - 1) |->
                        [ type |-> fields[i].type, name |-> fields[i].name,
                          isArray |-> fields[i].isArray,
                          arrayLength |-> Field(fields[i], "arrayLength", -1) ]],
          thrown |-> failing # {},
          type |-> IF failing = {} THEN "" ELSE fields[stop].type ]

\* registerDefinition(name, dataType): _createDefinition, then finalize() of the registry,
\* whose answer is valid
registerDefinition(name, dataType, refused, valid) ==
    LET definition == createDefinition(name, dataType, refused)
    IN  /\ bridge' =
              IF ~bridge.registry
              THEN [bridge EXCEPT
                      !.returned = Thrown("registerDefinition",
                                          "Definition registry not initialized")]
              ELSE IF definition.thrown
              THEN [bridge EXCEPT
                      !.definitions = @ \cup {name},
                      !.returned = Spread(Thrown("registerDefinition",
                                                 "Could not add field with type"),
                                          [type |-> definition.type])]
              ELSE IF ~valid
              THEN [bridge EXCEPT
                      !.definitions = @ \cup {name},
                      !.returned = Thrown("registerDefinition", "Invalid definition")]
              ELSE [bridge EXCEPT
                      !.definitions = @ \cup {name},
                      !.returned = [ op |-> "registerDefinition", thrown |-> FALSE,
                                     definition |-> [ name |-> name,
                                                      fields |-> definition.fields ] ]]
        /\ UNCHANGED <<config, gridRenderables, poseRenderables, errors, last, panel>>

\* registerDefinitions(dataTypes): _createDefinition for every key of dataTypes in the
\* order of the keys, then one finalize().  dataTypes is the sequence of its entries.
registerDefinitions(dataTypes, refused, valid) ==
    LET created == [i \in DOMAIN dataTypes |->
                      createDefinition(dataTypes[i].type, dataTypes[i].dataType, refused)]
        failing == {i \in DOMAIN created : created[i].thrown}
        stop == IF failing = {} THEN Len(dataTypes)
                ELSE CHOOSE i \in failing : \A j \in failing : i <= j
        names == {dataTypes[i].type : i \in 1..stop}
    IN  /\ bridge' =
              IF ~bridge.registry
              THEN [bridge EXCEPT
                      !.returned = Thrown("registerDefinitions",
                                          "Definition registry not initialized")]
              ELSE IF failing # {}
              THEN [bridge EXCEPT
                      !.definitions = @ \cup names,
                      !.returned = Spread(Thrown("registerDefinitions",
                                                 "Could not add field with type"),
                                          [type |-> created[stop].type])]
              ELSE IF ~valid
              THEN [bridge EXCEPT
                      !.definitions = @ \cup names,
                      !.returned = Thrown("registerDefinitions",
                                          "Failed to validate definitions")]
              ELSE [bridge EXCEPT
                      !.definitions = @ \cup names,
                      !.returned = [ op |-> "registerDefinitions", thrown |-> FALSE,
                                     definitions |->
                                        [i \in DOMAIN created |->
                                            [ name |-> created[i].name,
                                              fields |-> created[i].fields ]] ]]
        /\ UNCHANGED <<config, gridRenderables, poseRenderables, errors, last, panel>>

\* getDefinitionCommands(definitionName): the commands of a registered definition, which
\* the registry computes; the result names the definition they belong to
getDefinitionCommands(definitionName) ==
    /\ bridge' =
          IF ~bridge.registry
          THEN [bridge EXCEPT
                  !.returned = Thrown("getDefinitionCommands",
                                      "Definition registry not initialized")]
          ELSE IF definitionName \notin bridge.definitions
          THEN [bridge EXCEPT
                  !.returned = Thrown("getDefinitionCommands", "No definition found")]
          ELSE [bridge EXCEPT
                  !.returned = [ op |-> "getDefinitionCommands", thrown |-> FALSE,
                                 commandsOf |-> definitionName ]]
    /\ UNCHANGED <<config, gridRenderables, poseRenderables, errors, last, panel>>

\* rewriteMessages(definitionName, messages): messages holds the byte length of each
\* message; allocated says whether _malloc returned a buffer, and rejected is the index of
\* the message for which write returned a negative offset (0: none).  The result keeps the
\* number of offsets.
rewriteMessages(definitionName, messages, allocated, rejected) ==
    LET writer == CHOOSE w \in 1..(Cardinality(bridge.writers) + 1) : w \notin bridge.writers
        inDataPtr == CHOOSE q \in 1..(Cardinality(bridge.heap) + 1) : q \notin bridge.heap
        constructed == [bridge EXCEPT !.writers = @ \cup {writer}]
        buffered == [constructed EXCEPT !.heap = @ \cup {inDataPtr}]
    IN  /\ bridge' =
              IF ~bridge.instance
              THEN [bridge EXCEPT
                      !.returned = Thrown("rewriteMessages", "Wasm bridge not initialized")]
              ELSE IF ~bridge.registry
              THEN [bridge EXCEPT
                      !.returned = Thrown("rewriteMessages", "Definition registry not initialized")]
              ELSE IF definitionName \notin bridge.definitions
              THEN [bridge EXCEPT !.returned = Thrown("rewriteMessages", "No definition found")]
              ELSE IF ~allocated
              THEN [constructed EXCEPT
                      !.returned = Thrown("rewriteMessages", "Could not allocate memory")]
              ELSE IF rejected \in DOMAIN messages
              THEN [buffered EXCEPT
                      !.returned = Thrown("rewriteMessages", "Could not write message")]
              ELSE [bridge EXCEPT
                      !.returned = [ op |-> "rewriteMessages", thrown |-> FALSE,
                                     dataType |-> definitionName, offsets |-> Len(messages) ]]
        /\ UNCHANGED <<config, gridRenderables, poseRenderables, errors, last, panel>>

DefinitionNames == {"std_msgs/Header", "geometry_msgs/Pose"}

\* the fields of the data types of the calls: a header with a constant, a number and an
\* array of fixed length, and a pose of two nested types
DataTypes ==
    [ name \in DefinitionNames |->
        IF name = "std_msgs/Header"
        THEN << [type |-> "uint8", name |-> "VERSION", isConstant |-> TRUE, isArray |-> FALSE],
                [type |-> "uint32", name |-> "seq", isConstant |-> FALSE, isArray |-> FALSE],
                [type |-> "uint8", name |-> "tag", isConstant |-> FALSE, isArray |-> TRUE,
                 arrayLength |-> 2] >>
        ELSE << [type |-> "geometry_msgs/Point", name |-> "position", isConstant |-> FALSE,
                 isArray |-> FALSE],
                [type |-> "geometry_msgs/Quaternion", name |-> "orientation",
                 isConstant |-> FALSE, isArray |-> FALSE] >> ]

\* the sets of field types the registry refuses
RefusedTypes == {{}, {"geometry_msgs/Quaternion"}}

\* the data types of a call of registerDefinitions, in the order of their keys
DataTypeBatches ==
    { <<>>,
      << [type |-> "std_msgs/Header", dataType |-> DataTypes["std_msgs/Header"]],
         [type |-> "geometry_msgs/Pose", dataType |-> DataTypes["geometry_msgs/Pose"]] >>,
      << [type |-> "geometry_msgs/Pose", dataType |-> DataTypes["geometry_msgs/Pose"]],
         [type |-> "std_msgs/Header", dataType |-> DataTypes["std_msgs/Header"]] >> }

\* the byte lengths of the messages of a call
MessageBatches == {<<>>, <<1>>, <<2, 1>>}

WriterInitialize ==
    /\ bridge.pending < MaxPending
    /\ initialize

WriterInitializeResumes == \E answer \in FactoryAnswers : initializeResumes(answer)

WriterRegister ==
    \E name \in DefinitionNames, refused \in RefusedTypes, valid \in BOOLEAN :
        registerDefinition(name, DataTypes[name], refused, valid)

WriterRegisterAll ==
    \E dataTypes \in DataTypeBatches, refused \in RefusedTypes, valid \in BOOLEAN :
        registerDefinitions(dataTypes, refused, valid)

WriterCommands == \E name \in DefinitionNames : getDefinitionCommands(name)

WriterRewrite ==
    /\ Cardinality(bridge.writers) < MaxLeaked
    /\ \E name \in DefinitionNames, messages \in MessageBatches, allocated \in BOOLEAN,
          rejected \in 0..2 :
          rewriteMessages(name, messages, allocated, rejected)

NextWriter ==
    \/ WriterInitialize
    \/ WriterInitializeResumes
    \/ WriterRegister
    \/ WriterRegisterAll
    \/ WriterCommands
    \/ WriterRewrite

SpecWriter == Init /\ [][NextWriter]_vars

\* C39 (as claimed): between calls no buffer of the bridge allocator is left allocated and
\* no message writer is left undeleted, whether the calls of rewriteMessages returned or
\* threw
C39_RewriteReleasesOnEveryExit ==
    /\ bridge.heap = {}
    /\ bridge.writers = {}

\* a call of rewriteMessages that returns leaves the heap and the writers as they were
RewriteReleasesOnReturn ==
    [][ (bridge'.returned.op = "rewriteMessages" /\ ~bridge'.returned.thrown
         /\ bridge' # bridge) =>
            /\ bridge'.heap = bridge.heap
            /\ bridge'.writers = bridge.writers ]_vars

(***************************************************************************)
(* ImageView.  panel is the image panel as of its last render: its         *)
(* configuration, the value of the message hook the render saw (the        *)
(* messages by topic and whether a synchronized set was found), the value  *)
(* of lastImageMessageRef, the image handed to ImageCanvas (or none) and   *)
(* whether the empty state is shown.  A message is named by its topic and  *)
(* its stamp.                                                              *)
(***************************************************************************)
CameraTopics == {"/camera_a/image", "/camera_b/image"}

None == [defined |-> FALSE]

Some(message) == [defined |-> TRUE, value |-> message]

\* messagesByTopic?.[cameraTopic]?.[0]
firstMessage(messagesByTopic, cameraTopic) ==
    IF cameraTopic \in DOMAIN messagesByTopic /\ messagesByTopic[cameraTopic] # <<>>
    THEN Some(messagesByTopic[cameraTopic][1])
    ELSE None

\* the image to render without the fallback to the reference
imageMessageToRenderCurrentOnly(imageMessage, lastImageMessageRef) == imageMessage

\* line 569: imageMessage || lastImageMessageRef.current
imageMessageToRender(imageMessage, lastImageMessageRef) ==
    IF imageMessage.defined THEN imageMessage ELSE lastImageMessageRef

\* the topic names of the model in the order of their UTF-16 code units, which is the
\* order of Array.prototype.sort without a comparator
TopicOrder ==
    <<"/camera_a/image", "/camera_a/markers", "/camera_b/image", "/camera_b/lanes",
      "/camera_b/markers">>

TopicRank(topic) == CHOOSE i \in DOMAIN TopicOrder : TopicOrder[i] = topic

\* array.sort()
sort(array) == SortSeq(array, LAMBDA a, b : TopicRank(a) < TopicRank(b))

\* line 411: config.synchronize && enabledMarkerTopics.length > 0
shouldSynchronize(cfg) == cfg.synchronize /\ Len(cfg.enabledMarkerTopics) > 0

\* one run of the function component ImageView (lines 411-420, 562-569, 635-654) with the
\* configuration cfg and the value of the message hook.  The first run, on mount,
\* initializes the reference with the image message of that run.  A run that shows the
\* empty state calls renderEmptyState with config.enabledMarkerTopics, which sorts that
\* array in place (line 172), so the configuration holds the sorted array afterwards.
ImageView(cfg, messagesByTopic, synchronizedMessages) ==
    LET imageMessage == firstMessage(messagesByTopic, cfg.cameraTopic)
        before == IF panel.mounted THEN panel.lastImageMessageRef ELSE imageMessage
        lastImageMessageRef == IF imageMessage.defined THEN imageMessage ELSE before
        showEmptyState ==
            ~imageMessage.defined \/ (shouldSynchronize(cfg) /\ ~synchronizedMessages)
    IN  /\ panel' = [ mounted |-> TRUE,
                      config |-> IF showEmptyState
                                 THEN [cfg EXCEPT !.enabledMarkerTopics = sort(@)]
                                 ELSE cfg,
                      messagesByTopic |-> messagesByTopic,
                      synchronizedMessages |->
                          (shouldSynchronize(cfg) /\ synchronizedMessages),
                      lastImageMessageRef |-> lastImageMessageRef,
                      image |-> imageMessageToRender(imageMessage, lastImageMessageRef),
                      showEmptyState |-> showEmptyState ]
        /\ UNCHANGED <<config, gridRenderables, poseRenderables, errors, last, bridge>>

\* restore of the reducers without synchronization (lines 223-226); synchronizedMessages,
\* null there, is FALSE
restore(previousValue) ==
    [ messagesByTopic |->
          IF previousValue.defined THEN previousValue.value.messagesByTopic ELSE <<>>,
      synchronizedMessages |-> FALSE ]

\* addMessage of the reducers without synchronization (lines 227-230)
addMessage(value, newMessage) ==
    [ messagesByTopic |->
          [t \in DOMAIN value.messagesByTopic \cup {newMessage.topic} |->
              IF t = newMessage.topic THEN <<newMessage>> ELSE value.messagesByTopic[t]],
      synchronizedMessages |-> FALSE ]

MarkerTopic == "/camera_a/markers"

\* the marker topics a data source can have, in sorted order
MarkerTopics == <<"/camera_a/markers", "/camera_b/lanes", "/camera_b/markers">>

\* the marker topics of the data source at the time of a call
TopicSets == { {"/camera_a/markers"},
               {"/camera_a/markers", "/camera_b/lanes", "/camera_b/markers"} }

\* getCameraNamespace(topic): the topic up to its last segment
CameraNamespace(topic) ==
    IF topic \in {"/camera_a/image", "/camera_a/markers"} THEN "/camera_a" ELSE "/camera_b"

\* topic.split("/").pop()
LastSegment(topic) ==
    CASE topic \in {"/camera_a/markers", "/camera_b/markers"} -> "markers"
      [] topic = "/camera_b/lanes" -> "lanes"
      [] OTHER -> "image"

\* getMarkerOptions(imageTopic, topics, ...): the marker topics of the data source in the
\* namespace of the camera, sorted
getMarkerOptions(imageTopic, topics) ==
    SelectSeq(MarkerTopics,
              LAMBDA t : t \in topics /\ CameraNamespace(t) = CameraNamespace(imageTopic))

\* getRelatedMarkerTopics(enabledMarkerTopics, availableMarkerTopics): the available topics
\* that end with the last segment of an enabled topic
getRelatedMarkerTopics(enabledMarkerTopics, availableMarkerTopics) ==
    SelectSeq(availableMarkerTopics,
              LAMBDA t : \E i \in DOMAIN enabledMarkerTopics :
                            LastSegment(t) = LastSegment(enabledMarkerTopics[i]))

\* toggle(array, item): the array without the item if it holds it, with it appended if not
toggle(array, item) ==
    IF \E i \in DOMAIN array : array[i] = item
    THEN SelectSeq(array, LAMBDA x : x # item)
    ELSE Append(array, item)

\* lines 299-305: the members of availableAndEnabledMarkerTopics, the marker options of the
\* camera topic, the custom options and the enabled topics
availableAndEnabledMarkerTopics(cfg, topics) ==
    Range(getMarkerOptions(cfg.cameraTopic, topics))
        \cup Range(cfg.customMarkerTopicOptions) \cup Range(cfg.enabledMarkerTopics)

\* the messages of one topic a render can see: none, one, or two with the older one first
MessagesOf(topic) ==
    {<<>>} \cup { <<[topic |-> topic, stamp |-> s]>> : s \in 1..2 }
           \cup { <<[topic |-> topic, stamp |-> 1], [topic |-> topic, stamp |-> 2]>> }

\* the values the message hook can have under the synchronizing reducers
\* (getSynchronizingReducers), for the topics the configuration subscribes to: any
\* messages of the camera topic, the marker topics all with or all without a message, a
\* synchronized set found or not
SynchronizedValues(cfg) ==
    { [ messagesByTopic |->
            [t \in {cfg.cameraTopic} \cup Range(cfg.enabledMarkerTopics) |->
                IF t = cfg.cameraTopic THEN messages
                ELSE IF markers THEN <<[topic |-> t, stamp |-> 1]>> ELSE <<>>],
        synchronizedMessages |-> synchronizedMessages ] :
      messages \in MessagesOf(cfg.cameraTopic), markers \in BOOLEAN,
      synchronizedMessages \in BOOLEAN }

\* the value of the message hook as of the last render
HookValue == [ messagesByTopic |-> panel.messagesByTopic,
               synchronizedMessages |-> panel.synchronizedMessages ]

\* the render with the value the message hook returns
Render(cfg, value) == ImageView(cfg, value.messagesByTopic, value.synchronizedMessages)

\* saveConfig(...): the panel renders again with the saved configuration.  The message
\* hook (lines 211-236) restores its value: without synchronization restore keeps the
\* messages by topic of the previous value; with it the value is one of the synchronizing
\* reducers.
saveConfig(cfg) ==
    IF shouldSynchronize(cfg)
    THEN \E value \in SynchronizedValues(cfg) : Render(cfg, value)
    ELSE Render(cfg, restore(Some(HookValue)))

\* the configurations a panel can be mounted with: the default one of either camera, and
\* saved ones with enabled marker topics, in and out of order, of the camera or added as
\* custom topics, with and without synchronization
SavedConfigs ==
    { [cameraTopic |-> cameraTopic, synchronize |-> synchronize,
       enabledMarkerTopics |-> saved[1], customMarkerTopicOptions |-> saved[2]] :
      cameraTopic \in CameraTopics, synchronize \in BOOLEAN,
      saved \in { <<<<>>, <<>>>>,
                  <<<<"/camera_a/markers">>, <<>>>>,
                  <<<<"/camera_a/markers">>, <<"/camera_a/markers">>>>,
                  <<<<"/camera_b/markers", "/camera_b/lanes">>, <<>>>> } }

\* the first render of the panel, with its saved configuration.  Without synchronization
\* the value of the message hook is restore(undefined), to which a first message of the
\* camera topic may have been added; with synchronization it is one of the values of the
\* synchronizing reducers.
PanelMount ==
    /\ ~panel.mounted
    /\ \E cfg \in SavedConfigs :
          IF shouldSynchronize(cfg)
          THEN \E value \in SynchronizedValues(cfg) : Render(cfg, value)
          ELSE \/ Render(cfg, restore(None))
               \/ \E stamp \in 1..2 :
                     Render(cfg, addMessage(restore(None),
                                            [topic |-> cfg.cameraTopic, stamp |-> stamp]))

\* a message arrives on a subscribed topic (the camera topic or an enabled marker topic):
\* without synchronization addMessage makes it the one message of its topic and keeps the
\* other topics; with synchronization the hook returns one of the values of the
\* synchronizing reducers
PanelMessages ==
    /\ panel.mounted
    /\ IF shouldSynchronize(panel.config)
       THEN \E value \in SynchronizedValues(panel.config) : Render(panel.config, value)
       ELSE \E topic \in {panel.config.cameraTopic}
                            \cup Range(panel.config.enabledMarkerTopics) :
               \E stamp \in (IF topic = panel.config.cameraTopic THEN 1..2 ELSE {1}) :
                  Render(panel.config,
                         addMessage(HookValue, [topic |-> topic, stamp |-> stamp]))

\* a seek: the message hook starts again from restore(undefined), which has no message
PanelSeek ==
    /\ panel.mounted
    /\ ~shouldSynchronize(panel.config)
    /\ panel.messagesByTopic # <<>>
    /\ Render(panel.config, restore(None))

\* onChangeCameraTopic (lines 312-335): one saveConfig stores the new camera topic and, as
\* the enabled marker topics, the marker topics of the new camera that are related to the
\* enabled ones, whether or not the topic is the one already selected.  (transformMarkers,
\* saved in the same call, is not part of the model's configuration.)
onChangeCameraTopic(newCameraTopic, topics) ==
    saveConfig([panel.config EXCEPT
                   !.cameraTopic = newCameraTopic,
                   !.enabledMarkerTopics =
                       getRelatedMarkerTopics(@, getMarkerOptions(newCameraTopic, topics))])

\* an item of the image topic dropdown is clicked; the dropdown lists every image topic,
\* the selected one included (lines 381-391)
PanelCameraTopic ==
    /\ panel.mounted
    /\ \E cameraTopic \in CameraTopics, topics \in TopicSets :
          onChangeCameraTopic(cameraTopic, topics)

\* onToggleMarkerName (lines 306-311)
onToggleMarkerName(markerTopic) ==
    saveConfig([panel.config EXCEPT !.enabledMarkerTopics = toggle(@, markerTopic)])

\* onToggleSynchronize (lines 344-346)
onToggleSynchronize == saveConfig([panel.config EXCEPT !.synchronize = ~@])

\* onSelectTopic of the AddTopic menu (lines 450-455)
onSelectTopic(topic) ==
    saveConfig([panel.config EXCEPT !.enabledMarkerTopics = Append(@, topic),
                                    !.customMarkerTopicOptions = Append(@, topic)])

\* onClick of the close icon of a custom topic (lines 503-512)
onClickClose(topic) ==
    saveConfig([panel.config EXCEPT
                   !.enabledMarkerTopics = SelectSeq(@, LAMBDA topicOption : topicOption # topic),
                   !.customMarkerTopicOptions =
                       SelectSeq(@, LAMBDA topicOption : topicOption # topic)])

\* the synchronize item of the menu is clicked, or an item of the markers dropdown, which
\* lists availableAndEnabledMarkerTopics
PanelToggle ==
    /\ panel.mounted
    /\ \/ onToggleSynchronize
       \/ \E topics \in TopicSets :
             \E markerTopic \in availableAndEnabledMarkerTopics(panel.config, topics) :
                onToggleMarkerName(markerTopic)

\* at most this many custom marker topics are added
MaxCustomTopics == 1

\* a topic is picked in the AddTopic menu, which lists the topics of the data source that
\* are not in availableAndEnabledMarkerTopics (lines 447-449)
PanelAddTopic ==
    /\ panel.mounted
    /\ Len(panel.config.customMarkerTopicOptions) < MaxCustomTopics
    /\ \E topics \in TopicSets :
          \E topic \in (topics \cup CameraTopics)
                          \ availableAndEnabledMarkerTopics(panel.config, topics) :
             onSelectTopic(topic)

\* the close icon of a custom topic is clicked
PanelRemoveTopic ==
    /\ panel.mounted
    /\ \E topic \in Range(panel.config.customMarkerTopicOptions) : onClickClose(topic)

NextPanel ==
    \/ PanelMount
    \/ PanelMessages
    \/ PanelSeek
    \/ PanelCameraTopic
    \/ PanelToggle
    \/ PanelAddTopic
    \/ PanelRemoveTopic

SpecPanel == Init /\ [][NextPanel]_vars

\* the image message of the camera topic in the message set of the last render, if any
CurrentImage(p) ==
    IF p.config.cameraTopic \in DOMAIN p.messagesByTopic
          /\ Len(p.messagesByTopic[p.config.cameraTopic]) > 0
    THEN <<p.messagesByTopic[p.config.cameraTopic][1]>>
    ELSE <<>>

\* C40: in every render of the image panel, if the message set holds an image for the
\* camera topic, that image is the one handed to the canvas; if it holds none and the
\* previous render handed an image to the canvas, the same image is handed to it again; so
\* once an image has been handed to the canvas, no later render hands it none.
C40_CanvasKeepsLastImage ==
    [][ panel'.mounted =>
          /\ CurrentImage(panel') # <<>> =>
                /\ panel'.image.defined
                /\ panel'.image.value = CurrentImage(panel')[1]
          /\ (CurrentImage(panel') = <<>> /\ panel.mounted /\ panel.image.defined) =>
                panel'.image = panel.image
          /\ (panel.mounted /\ panel.image.defined) => panel'.image.defined ]_vars

\* C40 witness: the message set of the last render holds no image for the camera topic (the
\* empty state is shown) and the canvas is handed the image stamped 2 that an earlier render
\* received
C40_Witness ==
    /\ panel.mounted
    /\ CurrentImage(panel) = <<>>
    /\ panel.showEmptyState
    /\ panel.image.defined
    /\ panel.image.value.stamp = 2
    /\ panel.image = panel.lastImageMessageRef
====
